---- MODULE Spec2Model ----
(***************************************************************************)
(* Model of the "turbo" layer of go-overpass: the macro expander (Expand,  *)
(* scanMacros, replaceMacros and the per-macro handlers) and the MapCSS    *)
(* stylesheet parser (ParseMapCSS).                                        *)
(*                                                                         *)
(* Go strings are modelled as sequences of one-character strings, with     *)
(* 0-based byte offsets as in the source (the character at offset i of s   *)
(* is s[i+1]).  A nil pointer / absent value is the empty sequence <<>>    *)
(* and a present value x is <<x>>.                                         *)
(***************************************************************************)
EXTENDS Integers, Sequences, FiniteSets, TLC

(***************************************************************************)
(* Bounds of the model.                                                    *)
(***************************************************************************)
\* Largest number of segments concatenated into one template.
MaxSegs == 2

(***************************************************************************)
(* strings package: the functions of Go's strings package the code uses.   *)
(***************************************************************************)
Min(S) == CHOOSE x \in S : \A y \in S : x <= y

Max(S) == CHOOSE x \in S : \A y \in S : x >= y

\* s[from:to] with Go's 0-based half-open offsets.
Slice(s, from, to) == SubSeq(s, from + 1, to)

\* s[from:]
SliceFrom(s, from) == SubSeq(s, from + 1, Len(s))

HasPrefix(s, pre) == Len(s) >= Len(pre) /\ SubSeq(s, 1, Len(pre)) = pre

HasSuffix(s, suf) == Len(s) >= Len(suf) /\ SubSeq(s, Len(s) - Len(suf) + 1, Len(s)) = suf

\* strings.Index: offset of the first occurrence of sub in s, or -1.
Index(s, sub) ==
    LET I == {i \in 0..(Len(s) - Len(sub)) : SubSeq(s, i + 1, i + Len(sub)) = sub}
    IN  IF I = {} THEN -1 ELSE Min(I)

Contains(s, sub) == Index(s, sub) # -1

TrimPrefix(s, pre) == IF HasPrefix(s, pre) THEN SliceFrom(s, Len(pre)) ELSE s

TrimSuffix(s, suf) == IF HasSuffix(s, suf) THEN SubSeq(s, 1, Len(s) - Len(suf)) ELSE s

\* The white space characters of the model's alphabet (unicode.IsSpace).
IsSpace(c) == c \in {" ", "\t", "\n", "\r"}

TrimSpace(s) ==
    LET I == {i \in 1..Len(s) : ~IsSpace(s[i])}
    IN  IF I = {} THEN <<>> ELSE SubSeq(s, Min(I), Max(I))

\* strings.SplitN(s, sep, 2): at most two parts, split at the first sep.
SplitN2(s, sep) ==
    LET i == Index(s, sep)
    IN  IF i = -1 THEN <<s>>
        ELSE <<Slice(s, 0, i), SliceFrom(s, i + Len(sep))>>

\* strings.Split(s, sep) for a non-empty sep: all the parts.
RECURSIVE Split(_, _)
Split(s, sep) ==
    LET i == Index(s, sep)
    IN  IF i = -1 THEN <<s>>
        ELSE <<Slice(s, 0, i)>> \o Split(SliceFrom(s, i + Len(sep)), sep)

UpperLetters == <<"A","B","C","D","E","F","G","H","I","J","K","L","M","N","O","P","Q","R","S","T","U","V","W","X","Y","Z">>

LowerLetters == <<"a","b","c","d","e","f","g","h","i","j","k","l","m","n","o","p","q","r","s","t","u","v","w","x","y","z">>

ToLowerChar(c) ==
    IF \E i \in 1..26 : UpperLetters[i] = c
    THEN LowerLetters[CHOOSE i \in 1..26 : UpperLetters[i] = c]
    ELSE c

\* strings.ToLower on the ASCII alphabet of the model.
ToLower(s) == [i \in 1..Len(s) |-> ToLowerChar(s[i])]

\* strings.EqualFold on the ASCII alphabet of the model.
EqualFold(a, b) == ToLower(a) = ToLower(b)

\* strings.Fields: the maximal runs of non-space characters.
RECURSIVE Fields(_)
Fields(s) ==
    LET I == {i \in 1..Len(s) : ~IsSpace(s[i])}
    IN  IF I = {} THEN <<>>
        ELSE LET b == Min(I)
                 E == {j \in b..Len(s) : IsSpace(s[j])}
                 e == IF E = {} THEN Len(s) + 1 ELSE Min(E)
             IN  <<SubSeq(s, b, e - 1)>> \o Fields(SubSeq(s, e, Len(s)))

\* Concatenation of a sequence of strings.
RECURSIVE Concat(_)
Concat(ss) == IF ss = <<>> THEN <<>> ELSE Head(ss) \o Concat(Tail(ss))

Digits == <<"0","1","2","3","4","5","6","7","8","9">>

\* Decimal rendering of a natural number below 2^31.
RECURSIVE NatToStr(_)
NatToStr(n) ==
    IF n < 10 THEN <<Digits[n + 1]>>
    ELSE NatToStr(n \div 10) \o <<Digits[(n % 10) + 1]>>

\* fmt %d of an integer of small magnitude.
IntToStr(n) == IF n < 0 THEN <<"-">> \o NatToStr(0 - n) ELSE NatToStr(n)

\* A map with no key.
EmptyMap == [x \in {} |-> <<>>]

\* MapSet as it would be if a key already set kept its value.
MapSetIfAbsent(m, k, v) == IF k \in DOMAIN m THEN m ELSE (k :> v) @@ m

\* m[k] = v in Go: insert or overwrite.
MapSet(m, k, v) == (k :> v) @@ m

(***************************************************************************)
(* turbo.go: values and pure helpers of the macro expander.                *)
(***************************************************************************)
Nil == <<>>

Some(x) == <<x>>

\* QueryFormat (iota constants FormatAuto, FormatQL, FormatXML).
FormatAuto == 0

FormatQL == 1

FormatXML == 2

\* The error values of the package; NoErr is a nil error.
NoErr == "nil"

ErrMissingBBox == "ErrMissingBBox"

ErrMissingCenter == "ErrMissingCenter"

ErrMissingGeocoder == "ErrMissingGeocoder"

ErrGeocodeData == "ErrGeocodeData"

ErrBadMacro == "ErrBadMacro"

\* fmt.Errorf("geocoding failed: %w", err) wrapping the geocoder's own error.
ErrGeocodingFailed == "geocoding failed"

\* The zero value Result{}.
ZeroResult ==
    [Query |-> <<>>, Style |-> <<>>, Styles |-> <<>>, ParsedStyles |-> <<>>,
     Data |-> Nil, EndpointOverride |-> <<>>, DataServer |-> <<>>]

\* normalizeEndpoint as it would be without its case for a "/api/" suffix.
normalizeEndpointNoSlashCase(raw) ==
    LET interpreter == <<"/","i","n","t","e","r","p","r","e","t","e","r">>
        branch(trimmed) ==
            IF HasSuffix(trimmed, <<"/","a","p","i">>) THEN trimmed \o interpreter
            ELSE trimmed
        nonEmpty(trimmed0) == IF trimmed0 = <<>> THEN <<>> ELSE branch(TrimSuffix(trimmed0, <<"/">>))
    IN  nonEmpty(TrimSpace(raw))

normalizeEndpoint(raw) ==
    LET interpreter == <<"/","i","n","t","e","r","p","r","e","t","e","r">>
        branch(trimmed) ==
            IF HasSuffix(trimmed, <<"/","a","p","i">>) THEN trimmed \o interpreter
            ELSE IF HasSuffix(trimmed, <<"/","a","p","i","/","i","n","t","e","r","p","r","e","t","e","r">>) THEN trimmed
            ELSE IF Contains(trimmed, <<"/","a","p","i","/","i","n","t","e","r","p","r","e","t","e","r">>) THEN trimmed
            ELSE IF HasSuffix(trimmed, <<"/","a","p","i","/">>) THEN TrimSuffix(trimmed, <<"/">>) \o interpreter
            ELSE trimmed
        nonEmpty(trimmed0) == IF trimmed0 = <<>> THEN <<>> ELSE branch(TrimSuffix(trimmed0, <<"/">>))
    IN  nonEmpty(TrimSpace(raw))

\* detectFormat as it would be if it looked for the markers whatever format
\* the caller asks for.
detectFormatSniffing(q, fmt) ==
    IF Contains(q, <<"<","o","s","m","-","s","c","r","i","p","t">>) \/ Contains(q, <<"<","q","u","e","r","y">>) THEN FormatXML
    ELSE IF fmt # FormatAuto THEN fmt
    ELSE FormatQL

detectFormat(q, fmt) ==
    IF fmt # FormatAuto THEN fmt
    ELSE IF Contains(q, <<"<","o","s","m","-","s","c","r","i","p","t">>) \/ Contains(q, <<"<","q","u","e","r","y">>) THEN FormatXML
    ELSE FormatQL

\* strconv.FormatFloat(v, 'f', -1, 64).  A float64 is modelled by its number
\* of tenths: the shortest decimal form has one fractional digit, or none
\* when the value is whole.
formatFloat(v) ==
    LET digits(a) ==
            NatToStr(a \div 10) \o (IF a % 10 = 0 THEN <<>> ELSE <<".">> \o NatToStr(a % 10))
    IN  IF v < 0 THEN <<"-">> \o digits(0 - v) ELSE digits(v)

formatBBox(b, fmt) ==
    LET render(s, w, n, e) ==
            IF fmt = FormatXML
            THEN <<"s","=","\"">> \o s \o <<"\""," ","w","=","\"">> \o w \o <<"\""," ","n","=","\"">> \o n \o <<"\""," ","e","=","\"">> \o e \o <<"\"">>
            ELSE s \o <<",">> \o w \o <<",">> \o n \o <<",">> \o e
    IN  render(formatFloat(b.South), formatFloat(b.West), formatFloat(b.North), formatFloat(b.East))

formatCenter(c, fmt) ==
    LET render(lat, lon) ==
            IF fmt = FormatXML
            THEN <<"l","a","t","=","\"">> \o lat \o <<"\""," ","l","o","n","=","\"">> \o lon \o <<"\"">>
            ELSE lat \o <<",">> \o lon
    IN  render(formatFloat(c.Lat), formatFloat(c.Lon))

\* parseShortcutDefinition as it would be with strings.Split in place of
\* strings.SplitN(content, "=", 2).
parseShortcutDefinitionSplit(content) ==
    LET no == [name |-> <<>>, value |-> <<>>, ok |-> FALSE]
        named(name, value) ==
            IF name = <<>> \/ Contains(name, <<":">>) THEN no
            ELSE [name |-> name, value |-> TrimSpace(value), ok |-> TRUE]
        split(parts) ==
            IF Len(parts) # 2 THEN no ELSE named(TrimSpace(parts[1]), parts[2])
        prefixed(trimmed) ==
            HasPrefix(trimmed, <<"d","a","t","a",":">>) \/ HasPrefix(trimmed, <<"s","t","y","l","e",":">>)
    IN  IF prefixed(TrimSpace(content)) THEN no ELSE split(Split(content, <<"=">>))

parseShortcutDefinition(content) ==
    LET no == [name |-> <<>>, value |-> <<>>, ok |-> FALSE]
        named(name, value) ==
            IF name = <<>> \/ Contains(name, <<":">>) THEN no
            ELSE [name |-> name, value |-> TrimSpace(value), ok |-> TRUE]
        split(parts) ==
            IF Len(parts) # 2 THEN no ELSE named(TrimSpace(parts[1]), parts[2])
        prefixed(trimmed) ==
            HasPrefix(trimmed, <<"d","a","t","a",":">>) \/ HasPrefix(trimmed, <<"s","t","y","l","e",":">>)
    IN  IF prefixed(TrimSpace(content)) THEN no ELSE split(SplitN2(content, <<"=">>))

\* The loop over parts[1:] as it would be if it skipped an option without
\* '=' or with an empty key.
RECURSIVE dataOptionsSkipInvalid(_, _, _)
dataOptionsSkipInvalid(parts, options, parsed) ==
    LET skip == dataOptionsSkipInvalid(Tail(parts), options, parsed)
        keyValue(kv) ==
            IF Len(kv) # 2 \/ TrimSpace(kv[1]) = <<>> THEN skip
            ELSE dataOptionsSkipInvalid(Tail(parts),
                     MapSet(options, TrimSpace(kv[1]), TrimSpace(kv[2])), parsed)
    IN  IF parts = <<>> THEN [err |-> NoErr, options |-> options, parsed |-> parsed]
        ELSE keyValue(SplitN2(TrimSpace(Head(parts)), <<"=">>))

\* The loop of parseDataSource over parts[1:], with its early returns.
RECURSIVE dataOptions(_, _, _)
dataOptions(parts, options, parsed) ==
    LET bad == [err |-> ErrBadMacro, options |-> options, parsed |-> parsed]
        set(key, value) ==
            IF key = <<>> THEN bad
            ELSE dataOptions(Tail(parts), MapSet(options, key, value),
                     IF key = <<"s","e","r","v","e","r">>
                     THEN [parsed EXCEPT !.Server = value]
                     ELSE [parsed EXCEPT !.Params =
                              Some(MapSet(IF parsed.Params = Nil THEN EmptyMap
                                          ELSE parsed.Params[1], key, value))])
        keyValue(kv) ==
            IF Len(kv) # 2 THEN bad ELSE set(TrimSpace(kv[1]), TrimSpace(kv[2]))
        option(part) ==
            IF part = <<>> THEN dataOptions(Tail(parts), options, parsed)
            ELSE keyValue(SplitN2(part, <<"=">>))
    IN  IF parts = <<>> THEN [err |-> NoErr, options |-> options, parsed |-> parsed]
        ELSE option(TrimSpace(Head(parts)))

parseDataSource(raw0) ==
    LET bad == [err |-> ErrBadMacro, ds |-> Nil]
        source(mode, r) ==
            IF r.err # NoErr THEN [err |-> r.err, ds |-> Nil]
            ELSE [err |-> NoErr,
                  ds |-> Some([Mode |-> mode, Options |-> r.options, Parsed |-> r.parsed])]
        options(mode, rest) ==
            IF mode = <<>> THEN bad
            ELSE source(mode, dataOptions(rest, EmptyMap, [Server |-> <<>>, Params |-> Nil]))
        split(parts) == options(TrimSpace(parts[1]), Tail(parts))
        trimmed(raw) == IF raw = <<>> THEN bad ELSE split(Split(raw, <<",">>))
    IN  trimmed(TrimSpace(raw0))

\* scanMacros as it would be if the scan went on from the closing }} and not
\* from behind it.
scanMacrosResumeAtClose(q, pos) ==
    LET closed(openIdx, crel) ==
            IF crel = -1
            THEN [kind |-> "bad", start |-> openIdx, end |-> 0, content |-> <<>>]
            ELSE [kind |-> "macro", start |-> openIdx, end |-> crel + openIdx + 2,
                  content |-> Slice(q, openIdx + 2, crel + openIdx + 2)]
        opened(rel) ==
            IF pos >= Len(q) \/ rel = -1
            THEN [kind |-> "none", start |-> 0, end |-> 0, content |-> <<>>]
            ELSE closed(rel + pos, Index(SliceFrom(q, rel + pos + 2), <<"}","}">>))
    IN  opened(Index(SliceFrom(q, pos), <<"{","{">>))

\* One iteration of the loop of scanMacros from offset pos: "none" when the
\* scan is over (return nil), "bad" for an opening without a close
\* (ErrBadMacro), and otherwise the span handed to the callback.
scanMacros(q, pos) ==
    LET closed(openIdx, crel) ==
            IF crel = -1
            THEN [kind |-> "bad", start |-> openIdx, end |-> 0, content |-> <<>>]
            ELSE [kind |-> "macro", start |-> openIdx, end |-> crel + openIdx + 4,
                  content |-> Slice(q, openIdx + 2, crel + openIdx + 2)]
        opened(rel) ==
            IF pos >= Len(q) \/ rel = -1
            THEN [kind |-> "none", start |-> 0, end |-> 0, content |-> <<>>]
            ELSE closed(rel + pos, Index(SliceFrom(q, rel + pos + 2), <<"}","}">>))
    IN  opened(Index(SliceFrom(q, pos), <<"{","{">>))

(***************************************************************************)
(* geocoder.go: rendering of the geocode macros.  An int64 that may exceed *)
(* 2^31 is modelled by the pair hi, lo standing for hi * 10^9 + lo.        *)
(***************************************************************************)
Radix == 10^9

\* An int64 of small magnitude.
Int64(n) == [hi |-> 0, lo |-> n]

\* base + n for a non-negative base and 0 < n < 10^9.
Int64Add(base, n) ==
    [hi |-> base.hi + ((base.lo + n) \div Radix), lo |-> (base.lo + n) % Radix]

\* n as exactly nine decimal digits.
Pad9(n) ==
    LET d == NatToStr(n)
    IN  [i \in 1..(9 - Len(d)) |-> "0"] \o d

\* fmt %d of an int64.
FormatInt64(v) == IF v.hi = 0 THEN IntToStr(v.lo) ELSE NatToStr(v.hi) \o Pad9(v.lo)

osmTypeNode == <<"n","o","d","e">>

osmTypeWay == <<"w","a","y">>

osmTypeRelation == <<"r","e","l","a","t","i","o","n">>

normalizeOSMType(t) ==
    LET known(l) ==
            IF l = osmTypeNode THEN [type |-> osmTypeNode, ok |-> TRUE]
            ELSE IF l = osmTypeWay THEN [type |-> osmTypeWay, ok |-> TRUE]
            ELSE IF l = osmTypeRelation THEN [type |-> osmTypeRelation, ok |-> TRUE]
            ELSE [type |-> <<>>, ok |-> FALSE]
    IN  known(ToLower(TrimSpace(t)))

\* 3600000000 and 2400000000, the area id offsets of relations and ways.
areaBaseRelation == [hi |-> 3, lo |-> 600000000]

areaBaseWay == [hi |-> 2, lo |-> 400000000]

\* deriveAreaID as it would be with the two offsets exchanged.
deriveAreaIDSwapped(result) ==
    LET derive(t) ==
            IF ~t.ok \/ result.OSMID <= 0 THEN [id |-> Int64(0), err |-> ErrGeocodeData]
            ELSE IF t.type = osmTypeRelation
            THEN [id |-> Int64Add(areaBaseWay, result.OSMID), err |-> NoErr]
            ELSE IF t.type = osmTypeWay
            THEN [id |-> Int64Add(areaBaseRelation, result.OSMID), err |-> NoErr]
            ELSE [id |-> Int64(0), err |-> ErrGeocodeData]
    IN  derive(normalizeOSMType(result.OSMType))

deriveAreaID(result) ==
    LET derive(t) ==
            IF ~t.ok \/ result.OSMID <= 0 THEN [id |-> Int64(0), err |-> ErrGeocodeData]
            ELSE IF t.type = osmTypeRelation
            THEN [id |-> Int64Add(areaBaseRelation, result.OSMID), err |-> NoErr]
            ELSE IF t.type = osmTypeWay
            THEN [id |-> Int64Add(areaBaseWay, result.OSMID), err |-> NoErr]
            ELSE [id |-> Int64(0), err |-> ErrGeocodeData]
    IN  derive(normalizeOSMType(result.OSMType))

expandGeocodeID(result, fmt) ==
    LET render(type, id) ==
            IF fmt = FormatXML
            THEN [value |-> <<"t","y","p","e","=","\"">> \o type \o <<"\""," ","r","e","f","=","\"">> \o id \o <<"\"">>, err |-> NoErr]
            ELSE [value |-> type \o <<"(">> \o id \o <<")">>, err |-> NoErr]
        typed(t) ==
            IF ~t.ok \/ result.OSMID <= 0 THEN [value |-> <<>>, err |-> ErrGeocodeData]
            ELSE render(t.type, IntToStr(result.OSMID))
    IN  typed(normalizeOSMType(result.OSMType))

expandGeocodeArea(result, fmt) ==
    LET render(id) ==
            IF fmt = FormatXML
            THEN [value |-> <<"t","y","p","e","=","\"","a","r","e","a","\""," ","r","e","f","=","\"">> \o id \o <<"\"">>, err |-> NoErr]
            ELSE [value |-> <<"a","r","e","a","(">> \o id \o <<")">>, err |-> NoErr]
        area(d) ==
            IF d.err # NoErr THEN [value |-> <<>>, err |-> d.err]
            ELSE render(FormatInt64(d.id))
    IN  IF result.AreaID = 0 THEN area(deriveAreaID(result))
        ELSE area([id |-> Int64(result.AreaID), err |-> NoErr])

expandGeocodeBbox(result, fmt) ==
    IF result.BBox = Nil THEN [value |-> <<>>, err |-> ErrGeocodeData]
    ELSE [value |-> formatBBox(result.BBox[1], fmt), err |-> NoErr]

expandGeocodeCoords(result, fmt) ==
    IF result.Center = Nil THEN [value |-> <<>>, err |-> ErrGeocodeData]
    ELSE [value |-> formatCenter(result.Center[1], fmt), err |-> NoErr]

parseGeocodeMacro(content) ==
    LET no == [kind |-> <<>>, query |-> <<>>, ok |-> FALSE]
        macro(kind, q) ==
            IF kind = <<>> \/ q = <<>> THEN no
            ELSE IF kind \in {<<"g","e","o","c","o","d","e","I","d">>, <<"g","e","o","c","o","d","e","A","r","e","a">>, <<"g","e","o","c","o","d","e","B","b","o","x">>, <<"g","e","o","c","o","d","e","C","o","o","r","d","s">>}
            THEN [kind |-> kind, query |-> q, ok |-> TRUE]
            ELSE no
        split(parts) ==
            IF Len(parts) # 2 THEN no ELSE macro(TrimSpace(parts[1]), TrimSpace(parts[2]))
    IN  split(SplitN2(content, <<":">>))

\* The text handed to Geocode as it would be if it were the whole macro.
geocodeQueryWhole(content) == content

\* expandGeocode: the text handed to Geocode.
geocodeQuery(content) == parseGeocodeMacro(content).query

\* Whether expandGeocode reaches the call opts.Geocoder.Geocode(query).
geocodeCalled(content, opts) ==
    opts.Geocoder # Nil /\ parseGeocodeMacro(content).ok

\* expandGeocode as it would be if the macro were parsed before the
\* geocoder is tested.
expandGeocodeParseFirst(content, opts, fmt, resp) ==
    LET render(m) ==
            IF ~m.ok THEN [value |-> <<>>, err |-> ErrBadMacro]
            ELSE IF opts.Geocoder = Nil THEN [value |-> <<>>, err |-> ErrMissingGeocoder]
            ELSE IF resp.failed THEN [value |-> <<>>, err |-> ErrGeocodingFailed]
            ELSE IF m.kind = <<"g","e","o","c","o","d","e","I","d">> THEN expandGeocodeID(resp.result, fmt)
            ELSE IF m.kind = <<"g","e","o","c","o","d","e","A","r","e","a">> THEN expandGeocodeArea(resp.result, fmt)
            ELSE IF m.kind = <<"g","e","o","c","o","d","e","B","b","o","x">> THEN expandGeocodeBbox(resp.result, fmt)
            ELSE IF m.kind = <<"g","e","o","c","o","d","e","C","o","o","r","d","s">> THEN expandGeocodeCoords(resp.result, fmt)
            ELSE [value |-> <<>>, err |-> ErrBadMacro]
    IN  render(parseGeocodeMacro(content))

\* expandGeocode; resp is what Geocode returns when it is called: a result
\* and whether it comes with an error.
expandGeocode(content, opts, fmt, resp) ==
    LET render(m) ==
            IF ~m.ok THEN [value |-> <<>>, err |-> ErrBadMacro]
            ELSE IF resp.failed THEN [value |-> <<>>, err |-> ErrGeocodingFailed]
            ELSE IF m.kind = <<"g","e","o","c","o","d","e","I","d">> THEN expandGeocodeID(resp.result, fmt)
            ELSE IF m.kind = <<"g","e","o","c","o","d","e","A","r","e","a">> THEN expandGeocodeArea(resp.result, fmt)
            ELSE IF m.kind = <<"g","e","o","c","o","d","e","B","b","o","x">> THEN expandGeocodeBbox(resp.result, fmt)
            ELSE IF m.kind = <<"g","e","o","c","o","d","e","C","o","o","r","d","s">> THEN expandGeocodeCoords(resp.result, fmt)
            ELSE [value |-> <<>>, err |-> ErrBadMacro]
    IN  IF opts.Geocoder = Nil THEN [value |-> <<>>, err |-> ErrMissingGeocoder]
        ELSE render(parseGeocodeMacro(content))

(***************************************************************************)
(* turbo.go: the date macro.  A time.Time in UTC is modelled by its civil  *)
(* fields and its nanosecond.  A time.Duration is an int64 count of        *)
(* nanoseconds: the products of expandDate are computed on natural numbers *)
(* of six limbs in base 10^4 and then reduced to the int64 they wrap to.   *)
(***************************************************************************)
IsDigit(c) == \E i \in 1..10 : Digits[i] = c

DigitVal(c) == (CHOOSE i \in 1..10 : Digits[i] = c) - 1

RECURSIVE DigitsVal(_, _)
DigitsVal(s, acc) ==
    IF s = <<>> THEN acc ELSE DigitsVal(Tail(s), acc * 10 + DigitVal(Head(s)))

\* strconv.Atoi for texts of at most nine digits: an optional sign, then
\* one or more decimal digits.
Atoi(s) ==
    LET number(body, neg) ==
            IF body # <<>> /\ Len(body) <= 9 /\ \A i \in 1..Len(body) : IsDigit(body[i])
            THEN [value |-> IF neg THEN 0 - DigitsVal(body, 0) ELSE DigitsVal(body, 0),
                  ok |-> TRUE]
            ELSE [value |-> 0, ok |-> FALSE]
    IN  IF s # <<>> /\ Head(s) \in {"+", "-"} THEN number(Tail(s), Head(s) = "-")
        ELSE number(s, FALSE)

unitSecond == <<"s","e","c","o","n","d">>

unitMinute == <<"m","i","n","u","t","e">>

unitHour == <<"h","o","u","r">>

unitDay == <<"d","a","y">>

unitWeek == <<"w","e","e","k">>

unitMonth == <<"m","o","n","t","h">>

unitYear == <<"y","e","a","r">>

parseRelativeDuration(raw) ==
    LET bad == [value |-> 0, unit |-> <<>>, err |-> ErrBadMacro]
        of(value, unit) == [value |-> value, unit |-> unit, err |-> NoErr]
        named(n, unit) ==
            IF ~n.ok \/ n.value < 0 THEN bad
            ELSE IF unit \in {<<"s","e","c","o","n","d">>, <<"s","e","c","o","n","d","s">>} THEN of(n.value, unitSecond)
            ELSE IF unit \in {<<"m","i","n","u","t","e">>, <<"m","i","n","u","t","e","s">>} THEN of(n.value, unitMinute)
            ELSE IF unit \in {<<"h","o","u","r">>, <<"h","o","u","r","s">>} THEN of(n.value, unitHour)
            ELSE IF unit \in {<<"d","a","y">>, <<"d","a","y","s">>} THEN of(n.value, unitDay)
            ELSE IF unit \in {<<"w","e","e","k">>, <<"w","e","e","k","s">>} THEN of(n.value, unitWeek)
            ELSE IF unit \in {<<"m","o","n","t","h">>, <<"m","o","n","t","h","s">>} THEN of(n.value, unitMonth)
            ELSE IF unit \in {<<"y","e","a","r">>, <<"y","e","a","r","s">>} THEN of(n.value, unitYear)
            ELSE bad
        split(fields) ==
            IF Len(fields) # 2 THEN bad ELSE named(Atoi(fields[1]), ToLower(fields[2]))
    IN  split(Fields(raw))

\* The base of the limbs, least significant limb first.
Limb == 10000

\* A natural number below 2^31 as six limbs.
BigOf(n) == <<n % Limb, (n \div Limb) % Limb, n \div (Limb * Limb), 0, 0, 0>>

\* 2^63 and 2^64.
Two63 == <<5808, 5477, 368, 3372, 922, 0>>

Two64 == <<1616, 955, 737, 6744, 1844, 0>>

\* a * m + carry for m < 10^5, the carry out of the last limb dropped.
RECURSIVE BigMul(_, _, _)
BigMul(a, m, carry) ==
    IF a = <<>> THEN <<>>
    ELSE <<(Head(a) * m + carry) % Limb>> \o BigMul(Tail(a), m, (Head(a) * m + carry) \div Limb)

\* a * 10^4
BigShift(a) == <<0>> \o SubSeq(a, 1, Len(a) - 1)

BigLess(a, b) ==
    \E i \in 1..Len(a) : a[i] < b[i] /\ \A j \in (i + 1)..Len(a) : a[j] = b[j]

\* a - b - borrow for a >= b.
RECURSIVE BigSub(_, _, _)
BigSub(a, b, borrow) ==
    IF a = <<>> THEN <<>>
    ELSE IF Head(a) - Head(b) - borrow < 0
    THEN <<Head(a) - Head(b) - borrow + Limb>> \o BigSub(Tail(a), Tail(b), 1)
    ELSE <<Head(a) - Head(b) - borrow>> \o BigSub(Tail(a), Tail(b), 0)

\* Quotient and remainder of a by m < 10^5, from the most significant limb;
\* i is the limb to divide next and rem the remainder so far.
RECURSIVE BigDiv(_, _, _, _)
BigDiv(a, m, i, rem) ==
    LET below(d) == [q |-> [d.q EXCEPT ![i] = (rem * Limb + a[i]) \div m], r |-> d.r]
    IN  IF i = 0 THEN [q |-> a, r |-> rem]
        ELSE below(BigDiv(a, m, i - 1, (rem * Limb + a[i]) % m))

\* a modulo 2^64
RECURSIVE BigMod64(_)
BigMod64(a) == IF BigLess(a, Two64) THEN a ELSE BigMod64(BigSub(a, Two64, 0))

\* The int64 that -m wraps to, m a count of nanoseconds: its sign and its
\* magnitude.
NegInt64(m) ==
    LET wrapped(r) ==
            IF ~BigLess(Two63, r) THEN [neg |-> TRUE, ns |-> r]
            ELSE [neg |-> FALSE, ns |-> BigSub(Two64, r, 0)]
    IN  wrapped(BigMod64(m))

\* -time.Duration(value) * time.Second and the like: value * seconds * 10^9
\* nanoseconds, negated, as an int64.
NegDuration(value, unit) ==
    LET nanos(secs) == NegInt64(BigMul(BigShift(BigShift(secs)), 10, 0))
    IN  IF unit = unitSecond THEN nanos(BigOf(value))
        ELSE IF unit = unitMinute THEN nanos(BigMul(BigOf(value), 60, 0))
        ELSE IF unit = unitHour THEN nanos(BigMul(BigOf(value), 3600, 0))
        ELSE IF unit = unitDay THEN nanos(BigMul(BigMul(BigOf(value), 24, 0), 3600, 0))
        ELSE nanos(BigMul(BigMul(BigMul(BigOf(value), 7, 0), 24, 0), 3600, 0))

\* A Duration as days, seconds of the day and nanoseconds of the second.
SplitDuration(d) ==
    LET days(d4, nsec) ==
            [neg |-> d.neg, days |-> d4.q[1] + Limb * d4.q[2], secs |-> d4.r, nsec |-> nsec]
        secs(d3, r1, r2) ==
            days(BigDiv(d3.q, 86400, Len(d3.q), 0), r1 + Limb * r2 + Limb * Limb * d3.r)
        tens(d2, r1) == secs(BigDiv(d2.q, 10, Len(d2.q), 0), r1, d2.r)
        high(d1) == tens(BigDiv(d1.q, Limb, Len(d1.q), 0), d1.r)
    IN  high(BigDiv(d.ns, Limb, Len(d.ns), 0))

\* Days since 1970-01-01 of the civil date y-m-d (proleptic Gregorian).
DaysFromCivil(y0, m, d) ==
    LET days(y, era, mp) ==
            era * 146097 + (y - era * 400) * 365 + ((y - era * 400) \div 4)
            - ((y - era * 400) \div 100) + ((153 * mp + 2) \div 5) + d - 1 - 719468
        shifted(y) == days(y, y \div 400, IF m > 2 THEN m - 3 ELSE m + 9)
    IN  shifted(IF m <= 2 THEN y0 - 1 ELSE y0)

\* The civil date of a day number.
CivilFromDays(z0) ==
    LET date(era, yoe, doy, mp, m) ==
            [year |-> yoe + era * 400 + (IF m <= 2 THEN 1 ELSE 0), month |-> m,
             day |-> doy - ((153 * mp + 2) \div 5) + 1]
        inMonth(era, yoe, doy, mp) ==
            date(era, yoe, doy, mp, IF mp < 10 THEN mp + 3 ELSE mp - 9)
        inYear(era, yoe, doy) == inMonth(era, yoe, doy, (5 * doy + 2) \div 153)
        inEra(era, doe, yoe) ==
            inYear(era, yoe, doe - (365 * yoe + (yoe \div 4) - (yoe \div 100)))
        ofEra(era, doe) ==
            inEra(era, doe,
                  (doe - (doe \div 1460) + (doe \div 36524) - (doe \div 146096)) \div 365)
        shifted(z) == ofEra(z \div 146097, z % 146097)
    IN  shifted(z0 + 719468)

\* Time.Add(d) on the civil fields, d given by SplitDuration.
TimeAdd(t, d) ==
    LET sign == IF d.neg THEN 0 - 1 ELSE 1
        at(c, s, n) ==
            [year |-> c.year, month |-> c.month, day |-> c.day,
             hour |-> s \div 3600, min |-> (s % 3600) \div 60, sec |-> s % 60, nsec |-> n]
        ofDay(sod, n) ==
            at(CivilFromDays(DaysFromCivil(t.year, t.month, t.day) + sign * d.days
                             + (sod \div 86400)),
               sod % 86400, n)
        ofSecond(n) ==
            ofDay(t.hour * 3600 + t.min * 60 + t.sec + sign * d.secs + (n \div 1000000000),
                  n % 1000000000)
    IN  ofSecond(t.nsec + sign * d.nsec)

\* Time.AddDate(years, months, 0): the month is normalised into the year and
\* a day past the end of the month rolls over into the next one.
TimeAddDate(t, years, months) ==
    LET at(c) == [t EXCEPT !.year = c.year, !.month = c.month, !.day = c.day]
        add(mi) ==
            at(CivilFromDays(DaysFromCivil(t.year + years + (mi \div 12), (mi % 12) + 1, 1)
                             + t.day - 1))
    IN  add((t.month - 1) + months)

\* n as at least w decimal digits.
PadN(n, w) ==
    LET d == NatToStr(n)
    IN  [i \in 1..(w - Len(d)) |-> "0"] \o d

\* The fraction of RFC3339Nano: nothing for a whole second, else the nine
\* digits of the nanosecond without their trailing zeros.
Fraction(nsec) ==
    LET digits == PadN(nsec, 9)
        cut(last) == <<".">> \o SubSeq(digits, 1, last)
    IN  IF nsec = 0 THEN <<>> ELSE cut(Max({i \in 1..9 : digits[i] # "0"}))

\* Time.Format(time.RFC3339Nano) of a UTC time.
FormatRFC3339Nano(t) ==
    PadN(t.year, 4) \o <<"-">> \o PadN(t.month, 2) \o <<"-">> \o PadN(t.day, 2) \o <<"T">>
    \o PadN(t.hour, 2) \o <<":">> \o PadN(t.min, 2) \o <<":">> \o PadN(t.sec, 2)
    \o Fraction(t.nsec) \o <<"Z">>

\* expandDate; now is opts.Now in UTC, or the clock reading when opts.Now
\* is the zero time.
expandDate(content, now) ==
    LET bad == [value |-> <<>>, err |-> ErrBadMacro]
        at(t) == [value |-> FormatRFC3339Nano(t), err |-> NoErr]
        offset(d) ==
            IF d.err # NoErr THEN [value |-> <<>>, err |-> d.err]
            ELSE IF d.unit \in {unitSecond, unitMinute, unitHour, unitDay, unitWeek}
            THEN at(TimeAdd(now, SplitDuration(NegDuration(d.value, d.unit))))
            ELSE IF d.unit \in {unitMonth, unitYear}
            THEN at(TimeAddDate(now, IF d.unit = unitYear THEN 0 - d.value ELSE 0,
                                IF d.unit = unitMonth THEN 0 - d.value ELSE 0))
            ELSE bad
        relative(raw2) == IF raw2 = <<>> THEN bad ELSE offset(parseRelativeDuration(raw2))
        rest(raw1) ==
            IF raw1 = <<>> THEN at(now)
            ELSE IF ~HasPrefix(raw1, <<":">>) THEN bad
            ELSE relative(TrimSpace(TrimPrefix(raw1, <<":">>)))
    IN  rest(TrimSpace(TrimPrefix(content, <<"d","a","t","e">>)))

(***************************************************************************)
(* turbo.go: the callback Expand hands to replaceMacros.  It returns the   *)
(* replacement text, the error, the Result as the callback leaves it, and  *)
(* whether it has reached the call ParseMapCSS(style).                     *)
(***************************************************************************)
\* The style: branch as it would be without the test style != "".
styleMacroAlways(content, res) ==
    LET assign(style) ==
            [res |-> [res EXCEPT !.Style = style, !.Styles = Append(@, style)],
             parse |-> TRUE, style |-> style]
    IN  assign(TrimSpace(TrimPrefix(content, <<"s","t","y","l","e",":">>)))

\* The style: branch of the callback (the statements up to the call of
\* ParseMapCSS): the Result it leaves and whether ParseMapCSS is called.
styleMacro(content, res) ==
    LET assign(style) ==
            IF style # <<>>
            THEN [res |-> [res EXCEPT !.Style = style, !.Styles = Append(@, style)],
                  parse |-> TRUE, style |-> style]
            ELSE [res |-> [res EXCEPT !.Style = style], parse |-> FALSE, style |-> style]
    IN  assign(TrimSpace(TrimPrefix(content, <<"s","t","y","l","e",":">>)))

\* The append as it would be if a failed parse appended nothing.
appendParsedSkipNil(res, sheet, err) ==
    IF err # NoErr
    THEN res
    ELSE [res EXCEPT !.ParsedStyles = Append(@, Some(sheet))]

\* The append to ParsedStyles once ParseMapCSS(style) has returned sheet, err.
appendParsed(res, sheet, err) ==
    IF err # NoErr
    THEN [res EXCEPT !.ParsedStyles = Append(@, Nil)]
    ELSE [res EXCEPT !.ParsedStyles = Append(@, Some(sheet))]

\* The data: branch of the callback.
dataMacro(content, res) ==
    LET override(ds, server, r) ==
            IF EqualFold(ds.Mode, <<"o","v","e","r","p","a","s","s">>)
            THEN [r EXCEPT !.EndpointOverride = normalizeEndpoint(server)]
            ELSE r
        assign(ds) ==
            IF <<"s","e","r","v","e","r">> \in DOMAIN ds.Options
            THEN override(ds, ds.Options[<<"s","e","r","v","e","r">>],
                          [res EXCEPT !.Data = Some(ds), !.DataServer = ds.Options[<<"s","e","r","v","e","r">>]])
            ELSE [res EXCEPT !.Data = Some(ds)]
        parsed(d) ==
            IF d.err # NoErr THEN [err |-> d.err, res |-> res]
            ELSE [err |-> NoErr, res |-> assign(d.ds[1])]
    IN  parsed(parseDataSource(TrimPrefix(content, <<"d","a","t","a",":">>)))

replace(content0, opts, fmt, shortcuts, res, resp, now) ==
    LET plain(v, e, r) == [value |-> v, err |-> e, res |-> r, parse |-> FALSE, style |-> <<>>]
        styled(s) ==
            [value |-> <<>>, err |-> NoErr, res |-> s.res, parse |-> s.parse, style |-> s.style]
        with(r, r1) == plain(r.value, r.err, r1)
        data(d) == plain(<<>>, d.err, d.res)
        dispatch(content) ==
            IF content = <<>> THEN plain(<<>>, ErrBadMacro, res)
            ELSE IF parseShortcutDefinition(content).ok THEN plain(<<>>, NoErr, res)
            ELSE IF HasPrefix(content, <<"s","t","y","l","e",":">>) THEN styled(styleMacro(content, res))
            ELSE IF HasPrefix(content, <<"d","a","t","a",":">>)
            THEN data(dataMacro(content, res))
            ELSE IF HasPrefix(content, <<"g","e","o","c","o","d","e">>)
            THEN with(expandGeocode(content, opts, fmt, resp), res)
            ELSE IF content = <<"b","b","o","x">>
            THEN IF opts.BBox = Nil THEN plain(<<>>, ErrMissingBBox, res)
                 ELSE plain(formatBBox(opts.BBox[1], fmt), NoErr, res)
            ELSE IF content = <<"c","e","n","t","e","r">>
            THEN IF opts.Center = Nil THEN plain(<<>>, ErrMissingCenter, res)
                 ELSE plain(formatCenter(opts.Center[1], fmt), NoErr, res)
            ELSE IF HasPrefix(content, <<"d","a","t","e">>) THEN with(expandDate(content, now), res)
            ELSE IF content \in DOMAIN shortcuts THEN plain(shortcuts[content], NoErr, res)
            ELSE plain(<<>>, ErrBadMacro, res)
    IN  dispatch(TrimSpace(content0))

\* The pre-scan callback as it would be if it recorded no definition.
prescanNoDefine(content, shortcuts) == shortcuts

\* The pre-scan callback of Expand: a definition span sets its shortcut.
prescan(content, shortcuts) ==
    LET define(d) == IF d.ok THEN MapSet(shortcuts, d.name, d.value) ELSE shortcuts
    IN  define(parseShortcutDefinition(content))

\* Expand as it would be if an error returned the Result built so far.
ExpandReturnPartial(res, expanded, err) ==
    IF err # NoErr THEN [res |-> res, err |-> err]
    ELSE [res |-> [res EXCEPT !.Query = expanded], err |-> NoErr]

\* What Expand returns once replaceMacros has returned expanded, err.
ExpandReturn(res, expanded, err) ==
    IF err # NoErr THEN [res |-> ZeroResult, err |-> err]
    ELSE [res |-> [res EXCEPT !.Query = expanded], err |-> NoErr]

(***************************************************************************)
(* MapCSS parser: the cursor.  A parser position p is the record of the    *)
(* fields pos, line and col of the Go parser struct; the input is passed   *)
(* alongside.                                                              *)
(***************************************************************************)
\* The byte 0 that peek returns at the end of the input.
NUL == "NUL"

peek(in, p) == IF p.pos >= Len(in) THEN NUL ELSE in[p.pos + 1]

advance(in, p) ==
    IF p.pos < Len(in)
    THEN IF in[p.pos + 1] = "\n"
         THEN [pos |-> p.pos + 1, line |-> p.line + 1, col |-> 1]
         ELSE [pos |-> p.pos + 1, line |-> p.line, col |-> p.col + 1]
    ELSE p

\* p.pos += n, which leaves line and col alone.
jump(p, n) == [p EXCEPT !.pos = @ + n]

\* p.error(msg)
parseError(p, msg) == Some([Line |-> p.line, Column |-> p.col, Message |-> msg])

isWhitespace(ch) == ch \in {" ", "\t", "\n", "\r"}

isLetter(ch) == \E i \in 1..26 : ch = LowerLetters[i] \/ ch = UpperLetters[i]

isDigit(ch) == IsDigit(ch)

isIdent(ch) == isLetter(ch) \/ isDigit(ch) \/ ch \in {"-", "_", "@"}

isHexDigit(ch) == isDigit(ch) \/ ch \in {"a", "b", "c", "d", "e", "f", "A", "B", "C", "D", "E", "F"}

isTypeStart(ch) == isLetter(ch) \/ ch = "*"

isNumberChar(ch) == isDigit(ch) \/ ch = "-" \/ ch = "."

\* Repeated advance up to offset e.
RECURSIVE advanceTo(_, _, _)
advanceTo(in, p, e) == IF p.pos < e THEN advanceTo(in, advance(in, p), e) ELSE p

\* The offset at which a loop "for p.pos < len && P(peek) { advance }" stops.
runEnd(in, pos, P(_)) == Min({i \in pos..Len(in) : i = Len(in) \/ ~P(in[i + 1])})

skipWhitespace(in, p) == advanceTo(in, p, runEnd(in, p.pos, isWhitespace))

RECURSIVE blockCommentLoop(_, _)
blockCommentLoop(in, p) ==
    IF p.pos + 1 < Len(in)
    THEN IF in[p.pos + 1] = "*" /\ in[p.pos + 2] = "/" THEN jump(p, 2)
         ELSE blockCommentLoop(in, advance(in, p))
    ELSE p

skipBlockComment(in, p) == blockCommentLoop(in, jump(p, 2))

notNewline(ch) == ch # "\n"

skipLineComment(in, p) == advanceTo(in, p, runEnd(in, p.pos, notNewline))

RECURSIVE skipWhitespaceAndComments(_, _)
skipWhitespaceAndComments(in, p) ==
    IF p.pos < Len(in)
    THEN IF isWhitespace(peek(in, p)) THEN skipWhitespaceAndComments(in, advance(in, p))
         ELSE IF peek(in, p) = "/" /\ p.pos + 1 < Len(in) /\ in[p.pos + 2] = "*"
         THEN skipWhitespaceAndComments(in, skipBlockComment(in, p))
         ELSE IF peek(in, p) = "/" /\ p.pos + 1 < Len(in) /\ in[p.pos + 2] = "/"
         THEN skipWhitespaceAndComments(in, skipLineComment(in, p))
         ELSE p
    ELSE p

notAtRuleEnd(ch) == ch # ";" /\ ch # "{"

RECURSIVE atRuleBlock(_, _, _)
atRuleBlock(in, p, depth) ==
    IF p.pos < Len(in) /\ depth > 0
    THEN atRuleBlock(in, advance(in, p),
                     IF peek(in, p) = "{" THEN depth + 1
                     ELSE IF peek(in, p) = "}" THEN depth - 1 ELSE depth)
    ELSE p

skipAtRule(in, p) ==
    LET body(p1) ==
            IF p1.pos < Len(in)
            THEN IF peek(in, p1) = "{" THEN atRuleBlock(in, advance(in, p1), 1)
                 ELSE advance(in, p1)
            ELSE p1
    IN  body(advanceTo(in, p, runEnd(in, p.pos, notAtRuleEnd)))

parseIdent(in, p) ==
    LET run(e) == [p |-> advanceTo(in, p, e), s |-> Slice(in, p.pos, e)]
    IN  run(runEnd(in, p.pos, isIdent))

parseNumber(in, p) ==
    LET run(e) == [p |-> advanceTo(in, p, e), s |-> Slice(in, p.pos, e)]
    IN  run(runEnd(in, p.pos, isNumberChar))

RECURSIVE quotedLoop(_, _, _, _)
quotedLoop(in, p, quote, buf) ==
    IF p.pos < Len(in)
    THEN IF peek(in, p) = "\\" /\ p.pos + 1 < Len(in)
         THEN quotedLoop(in, advance(in, advance(in, p)), quote,
                         Append(buf, peek(in, advance(in, p))))
         ELSE IF peek(in, p) = quote THEN [p |-> advance(in, p), s |-> buf]
         ELSE quotedLoop(in, advance(in, p), quote, Append(buf, peek(in, p)))
    ELSE [p |-> p, s |-> buf]

parseQuotedString(in, p) ==
    IF p.pos >= Len(in) THEN [p |-> p, s |-> <<>>]
    ELSE IF peek(in, p) # "\"" /\ peek(in, p) # "'" THEN parseIdent(in, p)
    ELSE quotedLoop(in, advance(in, p), peek(in, p), <<>>)

RECURSIVE regexLoop(_, _, _)
regexLoop(in, p, buf) ==
    IF p.pos < Len(in)
    THEN IF peek(in, p) = "\\" /\ p.pos + 1 < Len(in)
         THEN regexLoop(in, advance(in, advance(in, p)),
                        buf \o <<peek(in, p), peek(in, advance(in, p))>>)
         ELSE IF peek(in, p) = "/" THEN [p |-> advance(in, p), s |-> Append(buf, "/")]
         ELSE regexLoop(in, advance(in, p), Append(buf, peek(in, p)))
    ELSE [p |-> p, s |-> buf]

parseRegex(in, p) ==
    IF peek(in, p) # "/" THEN [p |-> p, s |-> <<>>]
    ELSE regexLoop(in, advance(in, p), <<"/">>)

notValueEnd(ch) == ~(ch = "]" \/ ch = ";" \/ ch = "}" \/ isWhitespace(ch))

parseValueString(in, p0) ==
    LET run(p, e) == [p |-> advanceTo(in, p, e), s |-> Slice(in, p.pos, e)]
        value(p) ==
            IF p.pos >= Len(in) THEN [p |-> p, s |-> <<>>]
            ELSE IF peek(in, p) = "\"" \/ peek(in, p) = "'" THEN parseQuotedString(in, p)
            ELSE IF peek(in, p) = "/" THEN parseRegex(in, p)
            ELSE run(p, runEnd(in, p.pos, notValueEnd))
    IN  value(skipWhitespace(in, p0))

parseKeyOrString(in, p0) ==
    LET key(p) ==
            IF p.pos >= Len(in) THEN [p |-> p, s |-> <<>>]
            ELSE IF peek(in, p) = "\"" \/ peek(in, p) = "'" THEN parseQuotedString(in, p)
            ELSE parseIdent(in, p)
    IN  key(skipWhitespace(in, p0))

parseOperator(in, p) ==
    LET operator(two) ==
            IF p.pos >= Len(in) THEN [p |-> p, s |-> <<>>]
            ELSE IF p.pos + 1 < Len(in) /\ two \in {<<"=","~">>, <<"!","~">>, <<"!","=">>, <<"<","=">>, <<">","=">>}
            THEN [p |-> jump(p, 2), s |-> two]
            ELSE IF peek(in, p) \in {"=", "<", ">"}
            THEN [p |-> advance(in, p), s |-> <<peek(in, p)>>]
            ELSE [p |-> p, s |-> <<>>]
    IN  operator(Slice(in, p.pos, p.pos + 2))

RECURSIVE parenLoop(_, _, _, _)
parenLoop(in, p, depth, buf) ==
    IF p.pos < Len(in) /\ depth > 0
    THEN IF peek(in, p) = "(" THEN parenLoop(in, advance(in, p), depth + 1, Append(buf, "("))
         ELSE IF peek(in, p) = ")"
         THEN IF depth - 1 = 0 THEN [p |-> advance(in, p), s |-> buf]
              ELSE parenLoop(in, advance(in, p), depth - 1, Append(buf, ")"))
         ELSE parenLoop(in, advance(in, p), depth, Append(buf, peek(in, p)))
    ELSE [p |-> p, s |-> buf]

parseUntilClosingParen(in, p) == parenLoop(in, p, 1, <<>>)

(***************************************************************************)
(* MapCSS parser: values, conditions and declarations.                     *)
(***************************************************************************)
ValueTypeString == 0

ValueTypeNumber == 1

ValueTypeColor == 2

ValueTypeURL == 3

ValueTypeEval == 4

ValueTypeDashes == 5

ValueTypeKeyword == 6

(***************************************************************************)
(* float64.  A finite float64 that is not negative is modelled by the pair *)
(* m, e standing for m * 2^e, m a natural number of at most 53 bits given  *)
(* by its limbs.  The operations round to nearest, ties to even, as the    *)
(* hardware does.                                                          *)
(***************************************************************************)
\* a + 1
BigInc(a) == BigMul(a, 1, 1)

\* 2^52 and 2^53.
Two52 == BigDiv(Two63, 2048, Len(Two63), 0).q

Two53 == BigMul(Two52, 2, 0)

\* a divided by d < 10^5, rounded to nearest, ties to even.
BigRoundDiv(a, d) ==
    LET rounded(x) ==
            IF 2 * x.r > d \/ (2 * x.r = d /\ x.q[1] % 2 = 1) THEN BigInc(x.q) ELSE x.q
    IN  rounded(BigDiv(a, d, Len(a), 0))

\* The number of bits a has beyond 53, at least s.
RECURSIVE BitsBeyond53(_, _)
BitsBeyond53(a, s) ==
    IF BigLess(a, BigMul(Two53, 2^s, 0)) THEN s ELSE BitsBeyond53(a, s + 1)

\* float64(n) / 255 as it would be if the quotient were cut off, not rounded.
RECURSIVE FloatDiv255Down(_, _)
FloatDiv255Down(n, k) ==
    IF n = 0 THEN [m |-> BigOf(0), e |-> 0]
    ELSE IF n < 255 THEN FloatDiv255Down(2 * n, k + 1)
    ELSE [m |-> BigDiv(BigMul(Two52, n, 0), 255, Len(Two52), 0).q, e |-> 0 - 52 - k]

\* float64(n) / 255 for an int n in 0..255: k is the number of doublings that
\* bring n up to 255, so that the quotient lies in [2^-k, 2^(1-k)).
RECURSIVE FloatDiv255(_, _)
FloatDiv255(n, k) ==
    IF n = 0 THEN [m |-> BigOf(0), e |-> 0]
    ELSE IF n < 255 THEN FloatDiv255(2 * n, k + 1)
    ELSE [m |-> BigRoundDiv(BigMul(Two52, n, 0), 255), e |-> 0 - 52 - k]

\* x * 255
FloatMul255(x) ==
    LET rounded(product, s) == [m |-> BigRoundDiv(product, 2^s), e |-> x.e + s]
        shifted(product) == rounded(product, BitsBeyond53(product, 0))
    IN  shifted(BigMul(x.m, 255, 0))

\* int(x) for 0 <= x < 10^8: the fraction is cut off.
RECURSIVE FloatToInt(_)
FloatToInt(x) ==
    IF x.e >= 0 THEN x.m[1] + Limb * x.m[2]
    ELSE FloatToInt([m |-> BigDiv(x.m, 2, Len(x.m), 0).q, e |-> x.e + 1])

\* x == 1.0
FloatIsOne(x) == (x.m = Two52 /\ x.e = 0 - 52) \/ (x.m = Two53 /\ x.e = 0 - 53)

(***************************************************************************)
(* MapCSS parser: colours.  A *Color is modelled by the address it holds:  *)
(* the variable it points into, and where.                                 *)
(***************************************************************************)
\* hexVal
hexVal(char) ==
    IF IsDigit(char) THEN DigitVal(char)
    ELSE IF char \in {"a", "A"} THEN 10
    ELSE IF char \in {"b", "B"} THEN 11
    ELSE IF char \in {"c", "C"} THEN 12
    ELSE IF char \in {"d", "D"} THEN 13
    ELSE IF char \in {"e", "E"} THEN 14
    ELSE IF char \in {"f", "F"} THEN 15
    ELSE 0

ErrInvalidHexColor == "invalid hex color"

\* parseHexColorValue: the Color and the error.
parseHexColorValue(hex0) ==
    LET short(c) == FloatDiv255(hexVal(c) * 17, 0)
        long(c, d) == FloatDiv255(hexVal(c) * 16 + hexVal(d), 0)
        one == FloatDiv255(255, 0)
        color(r, g, b, a) == [color |-> Some([R |-> r, G |-> g, B |-> b, A |-> a]), err |-> Nil]
        parsed(hex) ==
            IF Len(hex) = 3 THEN color(short(hex[1]), short(hex[2]), short(hex[3]), one)
            ELSE IF Len(hex) = 4
            THEN color(short(hex[1]), short(hex[2]), short(hex[3]), short(hex[4]))
            ELSE IF Len(hex) = 6
            THEN color(long(hex[1], hex[2]), long(hex[3], hex[4]), long(hex[5], hex[6]), one)
            ELSE IF Len(hex) = 8
            THEN color(long(hex[1], hex[2]), long(hex[3], hex[4]), long(hex[5], hex[6]),
                       long(hex[7], hex[8]))
            ELSE [color |-> Nil, err |-> Some(ErrInvalidHexColor)]
    IN  parsed(TrimPrefix(hex0, <<"#">>))

\* fmt %x of an int that is not negative.
RECURSIVE FormatHex(_)
FormatHex(n) ==
    LET digit(d) == <<IF d < 10 THEN Digits[d + 1] ELSE LowerLetters[d - 9]>>
    IN  IF n < 16 THEN digit(n) ELSE FormatHex(n \div 16) \o digit(n % 16)

\* fmt %02x
FormatHex02(n) == IF n < 16 THEN <<"0">> \o FormatHex(n) ELSE FormatHex(n)

\* Color.Hex
Hex(c) ==
    LET byte(x) == FormatHex02(FloatToInt(FloatMul255(x)))
    IN  IF FloatIsOne(c.A) THEN <<"#">> \o byte(c.R) \o byte(c.G) \o byte(c.B)
        ELSE <<"#">> \o byte(c.R) \o byte(c.G) \o byte(c.B) \o byte(c.A)

\* The address of the Color that namedColors, a variable of the package,
\* holds under a key.
namedColorAt(key) == [base |-> "namedColors", at |-> key]

\* The address of a Color the call allocates; the allocations of one call
\* happen at different offsets of its cursor.
newColorAt(p) == [base |-> "call", at |-> NatToStr(p.pos)]

\* The keys of the namedColors table.
namedColors ==
    {<<"b","l","a","c","k">>, <<"w","h","i","t","e">>, <<"r","e","d">>, <<"g","r","e","e","n">>, <<"b","l","u","e">>, <<"y","e","l","l","o","w">>, <<"c","y","a","n">>, <<"m","a","g","e","n","t","a">>,
     <<"g","r","a","y">>, <<"g","r","e","y">>, <<"o","r","a","n","g","e">>, <<"p","u","r","p","l","e">>, <<"b","r","o","w","n">>, <<"p","i","n","k">>, <<"l","i","m","e">>, <<"n","a","v","y">>,
     <<"t","e","a","l">>, <<"o","l","i","v","e">>, <<"m","a","r","o","o","n">>, <<"a","q","u","a">>, <<"s","i","l","v","e","r">>, <<"f","u","c","h","s","i","a">>}

\* parseNamedColor: the pointer the map holds under the name, or nil.
parseNamedColor(name) ==
    IF ToLower(name) \in namedColors THEN Some(namedColorAt(ToLower(name))) ELSE Nil

AllDigits(s) == s # <<>> /\ \A i \in 1..Len(s) : IsDigit(s[i])

\* Whether strconv.ParseFloat(s, 64) returns a nil error, for the decimal
\* forms: an optional sign, digits with at most one point, an optional
\* exponent of at most two digits, and the special values inf, infinity and
\* nan.  Hexadecimal forms and digit-separating underscores are outside the
\* model.
ParseFloatOK(s) ==
    LET unsigned(x) == IF x # <<>> /\ Head(x) \in {"+", "-"} THEN Tail(x) ELSE x
        mantissa(mant) ==
            /\ Cardinality({i \in 1..Len(mant) : mant[i] = "."}) <= 1
            /\ \E i \in 1..Len(mant) : IsDigit(mant[i])
            /\ \A i \in 1..Len(mant) : mant[i] = "." \/ IsDigit(mant[i])
        exponent(exp) == AllDigits(exp) /\ Len(exp) <= 2
        decimal(low, E) ==
            IF E = {} THEN mantissa(low)
            ELSE /\ mantissa(SubSeq(low, 1, Min(E) - 1))
                 /\ exponent(unsigned(SubSeq(low, Min(E) + 1, Len(low))))
        float(low, signed) ==
            \/ low \in {<<"i","n","f">>, <<"i","n","f","i","n","i","t","y">>}
            \/ ~signed /\ low = <<"n","a","n">>
            \/ decimal(low, {i \in 1..Len(low) : low[i] = "e"})
    IN  float(ToLower(unsigned(s)), s # <<>> /\ Head(s) \in {"+", "-"})

determineValueType(rawStr) ==
    LET numbers(parts) == \A i \in 1..Len(parts) : ParseFloatOK(TrimSpace(parts[i]))
        typed(type) == [Raw |-> rawStr, Type |-> type, Color |-> Nil]
    IN  IF parseNamedColor(rawStr) # Nil
        THEN [Raw |-> rawStr, Type |-> ValueTypeColor, Color |-> parseNamedColor(rawStr)]
        ELSE IF ParseFloatOK(rawStr) THEN typed(ValueTypeNumber)
        ELSE IF /\ Contains(rawStr, <<",">>)
                /\ ~Contains(rawStr, <<"(">>) /\ ~Contains(rawStr, <<")">>)
                /\ numbers(Split(rawStr, <<",">>))
        THEN typed(ValueTypeDashes)
        ELSE typed(ValueTypeKeyword)

\* strings.Trim(s, `'"`)
TrimQuotes(s) ==
    LET cut(I) == IF I = {} THEN <<>> ELSE SubSeq(s, Min(I), Max(I))
    IN  cut({i \in 1..Len(s) : s[i] # "'" /\ s[i] # "\""})

parseURLValue(in, p) ==
    LET url(c) ==
            [p |-> c.p, err |-> Nil,
             value |-> [Raw |-> <<"u","r","l","(">> \o c.s \o <<")">>, Type |-> ValueTypeURL, Color |-> Nil]]
    IN  url(parseUntilClosingParen(in, jump(p, 4)))

parseEvalValue(in, p) ==
    LET eval(c) ==
            [p |-> c.p, err |-> Nil,
             value |-> [Raw |-> <<"e","v","a","l","(">> \o c.s \o <<")">>, Type |-> ValueTypeEval, Color |-> Nil]]
    IN  eval(parseUntilClosingParen(in, jump(p, 5)))

\* The zero Value{}.
ZeroValue == [Raw |-> <<>>, Type |-> ValueTypeString, Color |-> Nil]

parseRGBColor(in, p) ==
    LET rgb(c) ==
            IF Len(Split(c.s, <<",">>)) # 3
            THEN [p |-> c.p, err |-> parseError(c.p, "rgb() requires 3 values"),
                  value |-> ZeroValue]
            ELSE [p |-> c.p, err |-> Nil,
                  value |-> [Raw |-> <<"r","g","b","(">> \o c.s \o <<")">>, Type |-> ValueTypeColor,
                             Color |-> Some(newColorAt(p))]]
    IN  rgb(parseUntilClosingParen(in, jump(p, 4)))

parseRGBAColor(in, p) ==
    LET rgba(c) ==
            IF Len(Split(c.s, <<",">>)) # 4
            THEN [p |-> c.p, err |-> parseError(c.p, "rgba() requires 4 values"),
                  value |-> ZeroValue]
            ELSE [p |-> c.p, err |-> Nil,
                  value |-> [Raw |-> <<"r","g","b","a","(">> \o c.s \o <<")">>, Type |-> ValueTypeColor,
                             Color |-> Some(newColorAt(p))]]
    IN  rgba(parseUntilClosingParen(in, jump(p, 5)))

parseHexColor(in, p) ==
    LET color(p2, hex) ==
            IF parseHexColorValue(<<"#">> \o hex).err # Nil
            THEN [p |-> p2, err |-> parseError(p2, "invalid hex color"), value |-> ZeroValue]
            ELSE [p |-> p2, err |-> Nil,
                  value |-> [Raw |-> <<"#">> \o hex, Type |-> ValueTypeColor,
                             Color |-> Some(newColorAt(p))]]
        run(p1, e) == color(advanceTo(in, p1, e), Slice(in, p1.pos, e))
        digits(p1) == run(p1, runEnd(in, p1.pos, isHexDigit))
    IN  IF peek(in, p) # "#"
        THEN [p |-> p, err |-> parseError(p, "expected '#'"), value |-> ZeroValue]
        ELSE digits(advance(in, p))

notRawEnd(ch) == ch # ";" /\ ch # "}"

parseValue(in, p0) ==
    LET raw(p, e) ==
            [p |-> advanceTo(in, p, e), err |-> Nil,
             value |-> determineValueType(TrimSpace(Slice(in, p.pos, e)))]
        starts(p, n, pre) == p.pos + n < Len(in) /\ Slice(in, p.pos, p.pos + n) = pre
        value(p) ==
            IF p.pos >= Len(in) THEN [p |-> p, err |-> Nil, value |-> ZeroValue]
            ELSE IF starts(p, 4, <<"u","r","l","(">>) THEN parseURLValue(in, p)
            ELSE IF starts(p, 5, <<"e","v","a","l","(">>) THEN parseEvalValue(in, p)
            ELSE IF starts(p, 4, <<"r","g","b","(">>) THEN parseRGBColor(in, p)
            ELSE IF starts(p, 5, <<"r","g","b","a","(">>) THEN parseRGBAColor(in, p)
            ELSE IF peek(in, p) = "#" THEN parseHexColor(in, p)
            ELSE raw(p, runEnd(in, p.pos, notRawEnd))
    IN  value(skipWhitespace(in, p0))

\* Whether regexp.Compile accepts the pattern, for patterns made of literal
\* characters, plain groups and the repetition operators * + ?.  Character
\* classes, escapes and counted repetitions are outside the model.
RECURSIVE parensBalanced(_, _)
parensBalanced(pat, depth) ==
    IF pat = <<>> THEN depth = 0
    ELSE IF Head(pat) = "(" THEN parensBalanced(Tail(pat), depth + 1)
    ELSE IF Head(pat) = ")" THEN depth > 0 /\ parensBalanced(Tail(pat), depth - 1)
    ELSE parensBalanced(Tail(pat), depth)

regexpCompileOK(pat) ==
    LET rep == {"*", "+", "?"}
    IN  /\ \A i \in 1..Len(pat) : pat[i] \notin {"[", "\\", "{"}
        /\ parensBalanced(pat, 0)
        /\ \A i \in 1..Len(pat) : pat[i] \in rep =>
              /\ i > 1
              /\ pat[i - 1] \notin {"(", "|"}
              /\ pat[i - 1] \in rep => (pat[i] = "?" /\ i > 2 /\ pat[i - 2] \notin rep)

\* compileConditionRegex: the error, and whether a regexp is attached.
compileConditionRegex(p, operator, value) ==
    LET compile(pattern) ==
            IF ~regexpCompileOK(pattern)
            THEN [err |-> parseError(p, "invalid regex"), re |-> FALSE]
            ELSE [err |-> Nil, re |-> TRUE]
    IN  IF operator # <<"=","~">> /\ operator # <<"!","~">> THEN [err |-> Nil, re |-> FALSE]
        ELSE IF HasPrefix(value, <<"/">>) /\ HasSuffix(value, <<"/">>)
        THEN compile(SubSeq(value, 2, Len(value) - 1))
        ELSE compile(value)

parseCondition(in, p0) ==
    LET none == [Key |-> <<>>, Operator |-> <<>>, Value |-> <<>>, Regex |-> FALSE]
        fail(q, msg) == [p |-> q, err |-> parseError(q, msg), cond |-> none]
        close(p3, cond) ==
            IF p3.pos >= Len(in) \/ peek(in, p3) # "]" THEN fail(p3, "expected ']'")
            ELSE [p |-> advance(in, p3), err |-> Nil, cond |-> cond]
        bare(key, neg, p2) ==
            close(skipWhitespace(in, p2),
                  [Key |-> key, Operator |-> IF neg THEN <<"!">> ELSE <<>>,
                   Value |-> <<>>, Regex |-> FALSE])
        compiled(key, op, v, re) ==
            IF re.err # Nil THEN [p |-> v.p, err |-> re.err, cond |-> none]
            ELSE close(skipWhitespace(in, v.p),
                       [Key |-> key, Operator |-> op, Value |-> v.s, Regex |-> re.re])
        valued(key, op, v) == compiled(key, op, v, compileConditionRegex(v.p, op, v.s))
        operated(key, neg, op) ==
            IF op.s # <<>>
            THEN valued(key, op.s, parseValueString(in, skipWhitespace(in, op.p)))
            ELSE bare(key, neg, op.p)
        rest(key, neg, p2) ==
            IF p2.pos < Len(in) /\ peek(in, p2) # "]"
            THEN operated(key, neg, parseOperator(in, p2))
            ELSE bare(key, neg, p2)
        keyed(neg, k) == rest(k.s, neg, skipWhitespace(in, k.p))
        negated(p1) ==
            IF p1.pos < Len(in) /\ peek(in, p1) = "!"
            THEN keyed(TRUE, parseKeyOrString(in, advance(in, p1)))
            ELSE keyed(FALSE, parseKeyOrString(in, p1))
    IN  IF peek(in, p0) # "[" THEN fail(p0, "expected '['")
        ELSE negated(skipWhitespace(in, advance(in, p0)))

\* The Value of a set directive as it would be if its text were typed like
\* the value of a property.
setValueTyped(raw) == determineValueType(raw)

\* The Value of a set directive.
setValue(raw) == [Raw |-> raw, Type |-> ValueTypeString, Color |-> Nil]

parseSetDeclaration(in, p0) ==
    LET semicolon(q) == IF q.pos < Len(in) /\ peek(in, q) = ";" THEN advance(in, q) ELSE q
        set(q, property, raw) ==
            [p |-> semicolon(skipWhitespace(in, q)), err |-> Nil, empty |-> FALSE,
             decl |-> [Property |-> property, Value |-> setValue(raw)]]
        class(cls) == set(cls.p, <<"s","e","t","-","c","l","a","s","s">>, cls.s)
        assigned(tagName, v) == set(v.p, <<"s","e","t","-","t","a","g",":">> \o tagName, v.s)
        tagged(tagName, pt1) ==
            IF pt1.pos < Len(in) /\ peek(in, pt1) = "="
            THEN assigned(tagName, parseValueString(in, skipWhitespace(in, advance(in, pt1))))
            ELSE set(pt1, <<"s","e","t","-","t","a","g",":">> \o tagName, <<"y","e","s">>)
        tag(t) == tagged(t.s, skipWhitespace(in, t.p))
        directive(p1) ==
            IF p1.pos < Len(in) /\ peek(in, p1) = "."
            THEN class(parseIdent(in, advance(in, p1)))
            ELSE tag(parseIdent(in, p1))
    IN  directive(skipWhitespace(in, jump(p0, 3)))

\* parseDeclaration; empty stands for the error ErrEmptyDeclaration.
parseDeclaration(in, p0) ==
    LET none == [Property |-> <<>>, Value |-> ZeroValue]
        semicolon(q) == IF q.pos < Len(in) /\ peek(in, q) = ";" THEN advance(in, q) ELSE q
        valued(property, v) ==
            IF v.err # Nil THEN [p |-> v.p, err |-> v.err, empty |-> FALSE, decl |-> none]
            ELSE [p |-> semicolon(skipWhitespace(in, v.p)), err |-> Nil, empty |-> FALSE,
                  decl |-> [Property |-> property, Value |-> v.value]]
        colon(property, p2) ==
            IF p2.pos >= Len(in) \/ peek(in, p2) # ":"
            THEN [p |-> p2, err |-> parseError(p2, "expected ':'"), empty |-> FALSE,
                  decl |-> none]
            ELSE valued(property, parseValue(in, skipWhitespace(in, advance(in, p2))))
        property(prop) ==
            IF prop.s = <<>> THEN [p |-> prop.p, err |-> Nil, empty |-> TRUE, decl |-> none]
            ELSE colon(prop.s, skipWhitespace(in, prop.p))
        declaration(p1) ==
            IF p1.pos + 3 < Len(in) /\ Slice(in, p1.pos, p1.pos + 3) = <<"s","e","t">>
            THEN parseSetDeclaration(in, p1)
            ELSE property(parseIdent(in, p1))
    IN  declaration(skipWhitespaceAndComments(in, p0))

(***************************************************************************)
(* MapCSS parser: selectors.                                               *)
(***************************************************************************)
ZeroSelector ==
    [Type |-> <<>>, Layer |-> <<>>, ZoomMin |-> 0, ZoomMax |-> 0, Conditions |-> <<>>,
     PseudoClasses |-> <<>>, Classes |-> <<>>, Parent |-> Nil]

\* parseSelectorType; bad stands for the error ErrInvalidSelectorStart.
parseSelectorType(in, p) ==
    LET typed(id) == [p |-> id.p, type |-> id.s, bad |-> FALSE]
    IN  IF peek(in, p) = "*" THEN [p |-> advance(in, p), type |-> <<"*">>, bad |-> FALSE]
        ELSE IF isLetter(peek(in, p)) THEN typed(parseIdent(in, p))
        ELSE IF peek(in, p) \notin {"[", ":", ".", "|"} THEN [p |-> p, type |-> <<>>, bad |-> TRUE]
        ELSE [p |-> p, type |-> <<>>, bad |-> FALSE]

parseSelectorLayer(in, p) ==
    LET layer(id) == [p |-> id.p, layer |-> id.s]
    IN  IF p.pos + 1 < Len(in) /\ Slice(in, p.pos, p.pos + 2) = <<":",":">>
        THEN layer(parseIdent(in, advance(in, advance(in, p))))
        ELSE [p |-> p, layer |-> <<>>]

parseZoomRange(zoomStr) ==
    LET range(parts) ==
            [min |-> Atoi(parts[1]).value,
             max |-> IF parts[2] # <<>> THEN Atoi(parts[2]).value ELSE 0]
    IN  range(SplitN2(zoomStr, <<"-">>))

parseZoomValues(in, p) ==
    LET ranged(q, r) == [p |-> q, min |-> r.min, max |-> r.max]
        upTo(zoom, m) ==
            [p |-> m.p, min |-> zoom, max |-> IF m.s # <<>> THEN Atoi(m.s).value ELSE 0]
        single(q, zoom) ==
            IF q.pos < Len(in) /\ peek(in, q) = "-"
            THEN upTo(zoom, parseNumber(in, advance(in, q)))
            ELSE [p |-> q, min |-> zoom, max |-> zoom]
        values(n) ==
            IF Contains(n.s, <<"-">>) THEN ranged(n.p, parseZoomRange(n.s))
            ELSE single(n.p, Atoi(n.s).value)
    IN  values(parseNumber(in, p))

parseSelectorZoomRange(in, p) ==
    LET z(p1) ==
            IF p1.pos >= Len(in) \/ peek(in, p1) # "z" THEN [p |-> p1, min |-> 0, max |-> 0]
            ELSE parseZoomValues(in, advance(in, p1))
    IN  IF p.pos >= Len(in) \/ peek(in, p) # "|" THEN [p |-> p, min |-> 0, max |-> 0]
        ELSE z(advance(in, p))

shouldContinueParsing(ch) == ch # "{" /\ ch # "," /\ isTypeStart(ch)

\* The links of parseSelector as they would be if the first selector of the
\* chain were returned and each later one became its Parent.
RECURSIVE linkChainReversed(_)
linkChainReversed(chain) ==
    IF Len(chain) = 1 THEN chain[1]
    ELSE [chain[1] EXCEPT !.Parent = Some(linkChainReversed(Tail(chain)))]

\* The Parent links parseSelector sets: the last selector of the chain is
\* the result and each selector points to the one parsed before it.
RECURSIVE linkChain(_)
linkChain(chain) ==
    IF Len(chain) = 1 THEN chain[1]
    ELSE [chain[Len(chain)] EXCEPT
            !.Parent = Some(linkChain(SubSeq(chain, 1, Len(chain) - 1)))]

(***************************************************************************)
(* State.  Expand: its arguments query and opts, the locals format,        *)
(* shortcuts and res, the cursor pos of scanMacros, the buffer out and the *)
(* offset last of replaceMacros, the span cur whose callback is running,   *)
(* and ret, the returned pair once epc = "done".  trace records, per span  *)
(* and pass, what the callback did.  ParseMapCSS: the input, the cursor p, *)
(* the locals of parse, parseRule, parseSelectors, parseSelectorChain and  *)
(* parseSingleSelector, and the returned pair psheet, perr once            *)
(* ppc = "ret".  epc and ppc are the positions in the two functions.       *)
(***************************************************************************)
VARIABLES query, opts, format, shortcuts, res, pos, out, last, cur, ret, trace, epc,
          input, p, rules, selectors, chain, sel, decls, psheet, perr, ppc,
          hexin, hexout, again,
          semaphore, maxParallel, retryConfig, callers,
          cacheEntries, cacheConfig, mu, clock, routines

evars == <<query, opts, format, shortcuts, res, pos, out, last, cur, ret, trace, epc>>

pvars == <<input, p, rules, selectors, chain, sel, decls, psheet, perr, ppc>>

\* The calls made on what the parser produced: the text handed to
\* parseHexColorValue with what it and Hex returned, and a declaration of the
\* returned Stylesheet with what parseValue makes of its Raw text.
cvars == <<hexin, hexout, again>>

\* The Client: the tokens in its semaphore channel, the capacity of the
\* channel, its RetryConfig, and the goroutines calling QueryContext.
kvars == <<semaphore, maxParallel, retryConfig, callers>>

\* The cache: its map, its CacheConfig, its RWMutex, the clock, and the
\* goroutines calling its methods.
hvars == <<cacheEntries, cacheConfig, mu, clock, routines>>

vars == <<evars, pvars, cvars, kvars, hvars>>

\* The parser struct ParseMapCSS builds.
StartPos == [pos |-> 0, line |-> 1, col |-> 1]

\* The append as it would be if the new rule went in front of the others.
appendRuleInFront(list, rsel, rdecls) ==
    <<[Selectors |-> rsel, Declarations |-> rdecls]>> \o list

\* The append as it would be if the rule lost its declarations.
appendRuleBare(list, rsel, rdecls) ==
    Append(list, [Selectors |-> rsel, Declarations |-> <<>>])

\* rules = append(rules, *rule) for the rule parseRule returns.
appendRule(list, rsel, rdecls) ==
    Append(list, [Selectors |-> rsel, Declarations |-> rdecls])

\* The error return as it would be if it handed out the rules parsed so far.
ParseFailPartial(p1, e) ==
    /\ ppc' = "ret"
    /\ p' = p1
    /\ psheet' = Some([Rules |-> rules])
    /\ perr' = e
    /\ UNCHANGED <<input, rules, selectors, chain, sel, decls>>

\* return nil, err
ParseFail(p1, e) ==
    /\ ppc' = "ret"
    /\ p' = p1
    /\ psheet' = Nil
    /\ perr' = e
    /\ UNCHANGED <<input, rules, selectors, chain, sel, decls>>

\* parse: one iteration of the loop over the rules, up to the call of
\* parseRule, or the return of the stylesheet.
ParseTop ==
    /\ ppc = "parse"
    /\ \E p1 \in {skipWhitespaceAndComments(input, p)} :
           IF p.pos >= Len(input) \/ p1.pos >= Len(input)
           THEN /\ ppc' = "ret"
                /\ p' = IF p.pos >= Len(input) THEN p ELSE p1
                /\ psheet' = Some([Rules |-> rules])
                /\ perr' = Nil
                /\ UNCHANGED <<input, rules, selectors, chain, sel, decls>>
           ELSE IF peek(input, p1) = "@"
           THEN /\ p' = skipAtRule(input, p1)
                /\ UNCHANGED <<input, rules, selectors, chain, sel, decls, psheet, perr, ppc>>
           ELSE /\ ppc' = "selectors"
                /\ p' = p1
                /\ selectors' = <<>>
                /\ UNCHANGED <<input, rules, chain, sel, decls, psheet, perr>>
    /\ UNCHANGED evars
    /\ UNCHANGED <<cvars, kvars, hvars>>

\* parseSelectors: the head of one iteration, up to parseSelectorChain.
ParseSelectors ==
    /\ ppc = "selectors"
    /\ \E p1 \in {skipWhitespaceAndComments(input, p)} :
           /\ p' = p1
           /\ IF p1.pos >= Len(input) \/ peek(input, p1) = "{"
              THEN ppc' = "rule" /\ chain' = chain
              ELSE ppc' = "chain" /\ chain' = <<>>
    /\ UNCHANGED <<input, rules, selectors, sel, decls, psheet, perr>>
    /\ UNCHANGED evars
    /\ UNCHANGED <<cvars, kvars, hvars>>

\* parseSelectorChain: one call of parseSingleSelector, up to the loop of
\* parseSelectorModifiers.  The errors that end the chain lead to the tail
\* of parseSelector.
ParseSingle ==
    /\ ppc = "chain"
    /\ \E p1 \in {skipWhitespaceAndComments(input, p)} :
       \E t \in {parseSelectorType(input, p1)} :
       \E l \in {parseSelectorLayer(input, t.p)} :
       \E z \in {parseSelectorZoomRange(input, l.p)} :
           IF p1.pos >= Len(input) \/ peek(input, p1) \in {"{", ","} \/ t.bad
           THEN ppc' = "selector" /\ p' = p1 /\ sel' = sel
           ELSE /\ ppc' = "modifiers"
                /\ p' = z.p
                /\ sel' = [ZeroSelector EXCEPT !.Type = t.type, !.Layer = l.layer,
                                               !.ZoomMin = z.min, !.ZoomMax = z.max]
    /\ UNCHANGED <<input, rules, selectors, chain, decls, psheet, perr>>
    /\ UNCHANGED evars
    /\ UNCHANGED <<cvars, kvars, hvars>>

\* parseSelectorModifiers: one iteration of its loop.
ParseModifier ==
    /\ ppc = "modifiers"
    /\ \E c \in {parseCondition(input, p)} :
       \E id \in {parseIdent(input, advance(input, p))} :
           IF p.pos < Len(input) /\ peek(input, p) = "["
           THEN IF c.err # Nil THEN ParseFail(c.p, c.err)
                ELSE /\ p' = c.p
                     /\ sel' = [sel EXCEPT !.Conditions = Append(@, c.cond)]
                     /\ UNCHANGED <<input, rules, selectors, chain, decls, psheet, perr, ppc>>
           ELSE IF /\ p.pos < Len(input) /\ peek(input, p) = ":"
                   /\ (p.pos + 1 >= Len(input) \/ input[p.pos + 2] # ":")
           THEN /\ p' = id.p
                /\ sel' = IF id.s # <<>> THEN [sel EXCEPT !.PseudoClasses = Append(@, id.s)]
                          ELSE sel
                /\ UNCHANGED <<input, rules, selectors, chain, decls, psheet, perr, ppc>>
           ELSE IF p.pos < Len(input) /\ peek(input, p) = "."
           THEN /\ p' = id.p
                /\ sel' = IF id.s # <<>> THEN [sel EXCEPT !.Classes = Append(@, id.s)]
                          ELSE sel
                /\ UNCHANGED <<input, rules, selectors, chain, decls, psheet, perr, ppc>>
           ELSE /\ ppc' = "single"
                /\ UNCHANGED <<input, p, rules, selectors, chain, sel, decls, psheet, perr>>
    /\ UNCHANGED evars
    /\ UNCHANGED <<cvars, kvars, hvars>>

\* The end of parseSingleSelector and of one iteration of the loop of
\* parseSelectorChain.
ParseSingleEnd ==
    /\ ppc = "single"
    /\ \E p1 \in {skipWhitespaceAndComments(input, p)} :
           IF /\ sel.Type = <<>> /\ sel.Conditions = <<>>
              /\ sel.PseudoClasses = <<>> /\ sel.Classes = <<>>
           THEN ppc' = "selector" /\ p' = p /\ chain' = chain
           ELSE /\ chain' = Append(chain, sel)
                /\ p' = p1
                /\ ppc' = IF p1.pos < Len(input) /\ shouldContinueParsing(peek(input, p1))
                          THEN "chain" ELSE "selector"
    /\ UNCHANGED <<input, rules, selectors, sel, decls, psheet, perr>>
    /\ UNCHANGED evars
    /\ UNCHANGED <<cvars, kvars, hvars>>

\* The tail of parseSelector and the end of one iteration of parseSelectors.
ParseSelectorEnd ==
    /\ ppc = "selector"
    /\ \E p1 \in {skipWhitespaceAndComments(input, p)} :
           IF chain = <<>> THEN ParseFail(p, parseError(p, "no selector parsed"))
           ELSE /\ selectors' = Append(selectors, linkChain(chain))
                /\ IF p1.pos < Len(input) /\ peek(input, p1) = ","
                   THEN p' = advance(input, p1) /\ ppc' = "selectors"
                   ELSE p' = p1 /\ ppc' = "rule"
                /\ UNCHANGED <<input, rules, chain, sel, decls, psheet, perr>>
    /\ UNCHANGED evars
    /\ UNCHANGED <<cvars, kvars, hvars>>

\* parseRule between parseSelectors and parseDeclarations.
ParseRuleOpen ==
    /\ ppc = "rule"
    /\ \E p1 \in {skipWhitespaceAndComments(input, p)} :
           IF selectors = <<>> THEN ParseFail(p, parseError(p, "no selectors found"))
           ELSE IF p1.pos >= Len(input) \/ peek(input, p1) # "{"
           THEN ParseFail(p1, parseError(p1, "expected '{'"))
           ELSE /\ p' = advance(input, p1)
                /\ decls' = <<>>
                /\ ppc' = "decls"
                /\ UNCHANGED <<input, rules, selectors, chain, sel, psheet, perr>>
    /\ UNCHANGED evars
    /\ UNCHANGED <<cvars, kvars, hvars>>

\* parseDeclarations: the head of one iteration of its loop.
ParseDeclsHead ==
    /\ ppc = "decls"
    /\ \E p1 \in {skipWhitespaceAndComments(input, p)} :
           /\ p' = p1
           /\ ppc' = IF p1.pos >= Len(input) \/ peek(input, p1) = "}" THEN "close" ELSE "decl"
    /\ UNCHANGED <<input, rules, selectors, chain, sel, decls, psheet, perr>>
    /\ UNCHANGED evars
    /\ UNCHANGED <<cvars, kvars, hvars>>

\* parseDeclarations: the call of parseDeclaration and what the loop does
\* with its result.
ParseDecl ==
    /\ ppc = "decl"
    /\ \E d \in {parseDeclaration(input, p)} :
           IF d.err # Nil THEN ParseFail(d.p, d.err)
           ELSE /\ p' = d.p
                /\ decls' = IF d.empty THEN decls ELSE Append(decls, d.decl)
                /\ ppc' = "decls"
                /\ UNCHANGED <<input, rules, selectors, chain, sel, psheet, perr>>
    /\ UNCHANGED evars
    /\ UNCHANGED <<cvars, kvars, hvars>>

\* parseRule after parseDeclarations, and the append of the rule in parse.
ParseRuleClose ==
    /\ ppc = "close"
    /\ \E p1 \in {skipWhitespaceAndComments(input, p)} :
           IF p1.pos >= Len(input) \/ peek(input, p1) # "}"
           THEN ParseFail(p1, parseError(p1, "expected '}'"))
           ELSE /\ p' = advance(input, p1)
                /\ rules' = appendRule(rules, selectors, decls)
                /\ ppc' = "parse"
                /\ UNCHANGED <<input, selectors, chain, sel, decls, psheet, perr>>
    /\ UNCHANGED evars
    /\ UNCHANGED <<cvars, kvars, hvars>>

ParseNext ==
    \/ ParseTop
    \/ ParseSelectors
    \/ ParseSingle
    \/ ParseModifier
    \/ ParseSingleEnd
    \/ ParseSelectorEnd
    \/ ParseRuleOpen
    \/ ParseDeclsHead
    \/ ParseDecl
    \/ ParseRuleClose

(***************************************************************************)
(* Inputs.  A template is the concatenation of at most MaxSegs segments    *)
(* of one family (shortcuts, built-in macros, style macros, data macros    *)
(* with their endpoints and with their modes, geocode macros), each family *)
(* sharing the common segments.                                            *)
(***************************************************************************)
CommonSegs == {<<"n",";">>, <<"{","{">>, <<"{","{","x","}","}">>}

ShortcutSegs ==
    {<<"{","{","k","=","v","}","}">>, <<"{","{","k","}","}">>, <<"{","{","k","=","a","=","b","}","}">>, <<"{","{"," ","k"," ","="," ","w"," ","}","}">>, <<"{","{","k",":","x","=","v","}","}">>, <<"{","{","=","v","}","}">>,
     <<"{","{","b","b","o","x","=","v","}","}">>, <<"{","{","d","a","t","e","=","v","}","}">>, <<"{","{","b","b","o","x","}","}">>, <<"{","{","d","a","t","e","}","}">>, <<"{","{","k","=","u","}","}","{","{","k","}","}">>}

BuiltInSegs ==
    {<<"{","{","b","b","o","x","}","}">>, <<"{","{","c","e","n","t","e","r","}","}">>, <<"{","{","d","a","t","e","}","}">>, <<"{","{","d","a","t","e",":","1"," ","d","a","y","}","}">>, <<"{","{"," ","}","}">>, <<"<","q","u","e","r","y">>,
     <<"<","o","s","m","-","s","c","r","i","p","t">>}

StyleSegs ==
    {<<"{","{","s","t","y","l","e",":","a","}","}">>, <<"{","{","s","t","y","l","e",":","}","}">>, <<"{","{","s","t","y","l","e",":","a","{",";","}","}","}">>, <<"{","{","s","t","y","l","e",":","a","{","b",":","c",";","}","}","}">>,
     <<"{","{","s","t","y","l","e",":","a","{","}"," ","}","}">>, <<"{","{"," ","s","t","y","l","e",":"," ","a","{","b",":","c","}"," ","}","}">>}

EndpointSegs ==
    {<<"{","{","d","a","t","a",":","o","v","e","r","p","a","s","s",",","s","e","r","v","e","r","=","h","/","a","p","i","/","}","}">>, <<"{","{","d","a","t","a",":","o","v","e","r","p","a","s","s",",","s","e","r","v","e","r","=","h","/","a","p","i","}","}">>,
     <<"{","{","d","a","t","a",":","O","v","e","r","p","a","s","s",",","s","e","r","v","e","r","=","h","/","a","p","i","/","/","}","}">>, <<"{","{","d","a","t","a",":","o","v","e","r","p","a","s","s",",","s","e","r","v","e","r","=","h","/","a","p","i","/","i","n","t","e","r","p","r","e","t","e","r","}","}">>,
     <<"{","{","d","a","t","a",":","o","v","e","r","p","a","s","s",",","s","e","r","v","e","r","=","h","/","a","p","i","/","i","n","t","e","r","p","r","e","t","e","r","/","x","/","}","}">>, <<"{","{","d","a","t","a",":","o","v","e","r","p","a","s","s",",","s","e","r","v","e","r","=","h","}","}">>,
     <<"{","{","d","a","t","a",":","o","v","e","r","p","a","s","s",","," ","s","e","r","v","e","r"," ","="," ","}","}">>}

DataSegs ==
    {<<"{","{","d","a","t","a",":","o","v","e","r","p","a","s","s",",","s","e","r","v","e","r","=","h","/","a","p","i","}","}">>, <<"{","{","d","a","t","a",":","o","v","e","r","p","a","s","s","}","}">>, <<"{","{","d","a","t","a",":","s","q","l","}","}">>,
     <<"{","{","d","a","t","a",":","s","q","l",",","s","e","r","v","e","r","=","s",",","t","=","u","}","}">>, <<"{","{","d","a","t","a",":","o","v","e","r","p","a","s","s",",","x","}","}">>, <<"{","{","d","a","t","a",":","}","}">>}

GeoSegs ==
    {<<"{","{","g","e","o","c","o","d","e","I","d",":","V","}","}">>, <<"{","{","g","e","o","c","o","d","e","A","r","e","a",":","V","}","}">>, <<"{","{","g","e","o","c","o","d","e","B","b","o","x",":","V","}","}">>, <<"{","{"," ","g","e","o","c","o","d","e","C","o","o","r","d","s"," ",":"," ","W"," ","}","}">>,
     <<"{","{","g","e","o","c","o","d","e","X",":","V","}","}">>, <<"{","{","g","e","o","c","o","d","e","I","d","}","}">>, <<"{","{","g","e","o","c","o","d","e","A","r","e","a","=","V","}","}">>}

DateSegs ==
    {<<"{","{","d","a","t","e",":","3","0"," ","s","e","c","o","n","d","s","}","}">>, <<"{","{","d","a","t","e",":","9","0"," ","m","i","n","u","t","e","s","}","}">>, <<"{","{"," ","d","a","t","e"," ",":"," ","1"," "," ","H","O","U","R"," ","}","}">>,
     <<"{","{","d","a","t","e",":","2"," ","W","e","e","k","s","}","}">>, <<"{","{","d","a","t","e",":","2","0","0","0","0","0"," ","d","a","y","s","}","}">>}

DateFormSegs ==
    {<<"{","{","d","a","t","e",":","1"," ","m","o","n","t","h","}","}">>, <<"{","{","d","a","t","e",":","3"," ","y","e","a","r","s","}","}">>, <<"{","{","d","a","t","e","x","}","}">>, <<"{","{","d","a","t","e","x","=","v","}","}">>,
     <<"{","{","d","a","t","e",":","-","1"," ","d","a","y","}","}">>, <<"{","{","d","a","t","e",":","1","}","}">>, <<"{","{","d","a","t","e",":","1"," ","e","o","n","}","}">>}

DataFormSegs ==
    {<<"{","{","d","a","t","a",":","s","q","l",",","=","v","}","}">>, <<"{","{","d","a","t","a",":"," ",",","t","=","u","}","}">>, <<"{","{","d","a","t","a",":","s","q","l",",","}","}">>, <<"{","{","d","a","t","a",":","s","q","l",","," ","t"," ",",","u","=","v","}","}">>,
     <<"{","{","d","a","t","a",":","s","q","l",",","t","=","}","}">>}

Families ==
    {ShortcutSegs, BuiltInSegs, StyleSegs, EndpointSegs, DataSegs, GeoSegs, DateSegs,
     DateFormSegs, DataFormSegs}

SegSeqs(S) == UNION {[1..n -> S] : n \in 1..MaxSegs}

\* The templates of a family.
TemplatesOf(F) == {Concat(ss) : ss \in SegSeqs(F \cup CommonSegs)}

Templates == UNION {TemplatesOf(F) : F \in Families}

Time(y, mo, d, h, mi, s) ==
    [year |-> y, month |-> mo, day |-> d, hour |-> h, min |-> mi, sec |-> s, nsec |-> 0]

\* The readings of time.Now() when Options.Now is the zero time.
ClockTimes ==
    {[Time(2024, 3, 31, 0, 0, 5) EXCEPT !.nsec = 120000000], Time(1970, 1, 1, 0, 0, 0)}

\* Options: nothing set; everything set with automatic format; forced XML;
\* forced QL with a geocoder only.  Floats are given in tenths.
NoOptions ==
    [BBox |-> Nil, Center |-> Nil, Now |-> Nil, Shortcuts |-> EmptyMap,
     Geocoder |-> Nil, Format |-> FormatAuto]

FullOptions ==
    [BBox |-> Some([South |-> 11, West |-> 22, North |-> 33, East |-> 44]),
     Center |-> Some([Lat |-> 55, Lon |-> 66]),
     Now |-> Some(Time(2024, 2, 10, 12, 30, 0)),
     Shortcuts |-> (<<"k">> :> <<"s">>) @@ (<<"x">> :> <<"{","{","k","}","}">>)
                       @@ (<<"b","b","o","x">> :> <<"b">>),
     Geocoder |-> Some("geocoder"), Format |-> FormatAuto]

XMLOptions ==
    [BBox |-> Some([South |-> 10, West |-> 20, North |-> 30, East |-> 0 - 5]),
     Center |-> Some([Lat |-> 50, Lon |-> 60]),
     Now |-> Nil,
     Shortcuts |-> (<<"k">> :> <<"s">>),
     Geocoder |-> Some("geocoder"), Format |-> FormatXML]

QLOptions ==
    [BBox |-> Some([South |-> 0 - 120, West |-> 0, North |-> 5, East |-> 1800]),
     Center |-> Nil, Now |-> Nil, Shortcuts |-> EmptyMap,
     Geocoder |-> Some("geocoder"), Format |-> FormatQL]

OptionSets == {NoOptions, FullOptions, XMLOptions, QLOptions}

\* The Options a family is expanded with: the format and the geocoder bear
\* on the built-in and the geocode macros only.
OptionsOf(F) ==
    IF F \in {BuiltInSegs, GeoSegs} THEN OptionSets ELSE {NoOptions, FullOptions}

GeoResult(t, id, area, bbox, center) ==
    [failed |-> FALSE,
     result |-> [OSMType |-> t, OSMID |-> id, AreaID |-> area, BBox |-> bbox, Center |-> center]]

\* What a call of Geocoder.Geocode may return.
GeoResponses ==
    LET bb == Some([South |-> 10, West |-> 20, North |-> 30, East |-> 40])
        cc == Some([Lat |-> 50, Lon |-> 60])
    IN  {GeoResult(<<"r","e","l","a","t","i","o","n">>, 1645, 0, bb, cc),
         GeoResult(<<"w","a","y">>, 7, 0, Nil, Nil),
         GeoResult(<<" ","W","a","y">>, 999999999, 0, Nil, cc),
         GeoResult(<<"n","o","d","e">>, 5, 0, bb, Nil),
         GeoResult(<<"n","o","d","e">>, 5, 9, Nil, Nil),
         GeoResult(<<"r","e","l","a","t","i","o","n">>, 0, 0, Nil, Nil),
         GeoResult(<<"r","e","l","a","t","i","o","n">>, 0 - 1, 0, Nil, Nil),
         GeoResult(<<"x">>, 5, 0, Nil, Nil),
         GeoResult(<<"x">>, 0, 0 - 7, Nil, Nil),
         [failed |-> TRUE, result |-> GeoResult(<<>>, 0, 0, Nil, Nil).result]}

\* The response slot of a callback that does not call the geocoder.
NoResponse == [failed |-> TRUE, result |-> GeoResult(<<>>, 0, 0, Nil, Nil).result]

(***************************************************************************)
(* Expand.                                                                 *)
(***************************************************************************)
NoSpan == [kind |-> "none", start |-> 0, end |-> 0, content |-> <<>>]

NoReturn == [res |-> ZeroResult, err |-> NoErr]

ParserIdle ==
    /\ input = <<>>
    /\ p = StartPos
    /\ rules = <<>>
    /\ selectors = <<>>
    /\ chain = <<>>
    /\ sel = ZeroSelector
    /\ decls = <<>>
    /\ psheet = Nil
    /\ perr = Nil
    /\ ppc = "idle"

\* No Client is at work.
NoQueries ==
    /\ semaphore = 0
    /\ maxParallel = 0
    /\ retryConfig = [MaxRetries |-> 0]
    /\ callers = <<>>

\* No cache is at work.
NoCache ==
    /\ cacheEntries = EmptyMap
    /\ cacheConfig = [Enabled |-> FALSE, TTL |-> 0, MaxEntries |-> 0]
    /\ mu = [writer |-> 0, readers |-> {}]
    /\ clock = 0
    /\ routines = <<>>

\* Expand is not at work.
ExpandIdle ==
    /\ query = <<>>
    /\ opts = NoOptions
    /\ format = FormatQL
    /\ shortcuts = EmptyMap
    /\ res = ZeroResult
    /\ pos = 0
    /\ out = <<>>
    /\ last = 0
    /\ cur = NoSpan
    /\ ret = NoReturn
    /\ trace = <<>>
    /\ epc = "none"

NoCalls ==
    /\ hexin = <<>>
    /\ hexout = Nil
    /\ again = Nil

\* The state of Expand(query, opts) when the pre-scan begins.
Init ==
    /\ \E F \in Families :
          /\ query \in TemplatesOf(F)
          /\ opts \in OptionsOf(F)
    /\ format = detectFormat(query, opts.Format)
    /\ shortcuts = opts.Shortcuts
    /\ res = ZeroResult
    /\ pos = 0
    /\ out = <<>>
    /\ last = 0
    /\ cur = NoSpan
    /\ ret = NoReturn
    /\ trace = <<>>
    /\ epc = "prescan"
    /\ ParserIdle
    /\ NoCalls
    /\ NoQueries
    /\ NoCache

\* The callback of replaceMacros as it would be if it wrote the expansion
\* only, without the text since the span before.
writeSpanOnlyValue(buf, q, from, start, value) == buf \o value

\* The callback of replaceMacros on a span: the text since the span before,
\* then the expansion.
writeSpan(buf, q, from, start, value) == buf \o Slice(q, from, start) \o value

\* return from Expand
Return(r) ==
    /\ epc' = "done"
    /\ ret' = r

\* One iteration of scanMacros in the pre-scan, with its callback.
PreScan ==
    /\ epc = "prescan"
    /\ \E m \in {scanMacros(query, pos)} :
          CASE m.kind = "none" ->
                  /\ epc' = "subst"
                  /\ pos' = 0
                  /\ UNCHANGED <<shortcuts, ret, trace>>
            [] m.kind = "bad" ->
                  /\ Return(ExpandReturn(res, <<>>, ErrBadMacro))
                  /\ UNCHANGED <<shortcuts, pos, trace>>
            [] m.kind = "macro" ->
                  /\ shortcuts' = prescan(m.content, shortcuts)
                  /\ pos' = m.end
                  /\ trace' = Append(trace,
                        [pass |-> "prescan", start |-> m.start, end |-> m.end,
                         content |-> m.content,
                         def |-> parseShortcutDefinition(m.content).ok,
                         value |-> <<>>, err |-> NoErr, geo |-> Nil, asked |-> Nil,
                         parsed |-> Nil])
                  /\ UNCHANGED <<ret, epc>>
    /\ UNCHANGED <<query, opts, format, res, out, last, cur>>
    /\ UNCHANGED pvars
    /\ UNCHANGED <<cvars, kvars, hvars>>

\* One iteration of scanMacros in replaceMacros, with the callback of
\* Expand; a style: macro with a text stops at the call of ParseMapCSS.
Subst ==
    /\ epc = "subst"
    /\ \E m \in {scanMacros(query, pos)} :
          CASE m.kind = "none" ->
                  /\ out' = out \o SliceFrom(query, last)
                  /\ Return(ExpandReturn(res, out', NoErr))
                  /\ res' = [res EXCEPT !.Query = out']
                  /\ UNCHANGED <<pos, last, cur, trace>>
                  /\ UNCHANGED pvars
            [] m.kind = "bad" ->
                  /\ Return(ExpandReturn(res, <<>>, ErrBadMacro))
                  /\ UNCHANGED <<res, pos, out, last, cur, trace>>
                  /\ UNCHANGED pvars
            [] m.kind = "macro" ->
                  \E content \in {TrimSpace(m.content)} :
                  \E isDef \in {parseShortcutDefinition(content).ok} :
                  \E isGeo \in {~isDef /\ HasPrefix(content, <<"g","e","o","c","o","d","e">>)
                                  /\ geocodeCalled(content, opts)} :
                  \E isDate \in {~isDef /\ HasPrefix(content, <<"d","a","t","e">>)} :
                  \E resp \in IF isGeo THEN GeoResponses ELSE {NoResponse} :
                  \E now \in IF opts.Now # Nil THEN {opts.Now[1]}
                             ELSE IF isDate THEN ClockTimes ELSE {Time(1970, 1, 1, 0, 0, 0)} :
                  \E r \in {replace(m.content, opts, format, shortcuts, res, resp, now)} :
                  \E entry \in {[pass |-> "subst", start |-> m.start, end |-> m.end,
                                 content |-> m.content, def |-> isDef,
                                 value |-> r.value, err |-> r.err,
                                 geo |-> IF isGeo THEN Some(resp) ELSE Nil,
                                 asked |-> IF isGeo THEN Some(geocodeQuery(content)) ELSE Nil,
                                 parsed |-> Nil]} :
                     /\ out' = writeSpan(out, query, last, m.start, r.value)
                     /\ res' = r.res
                     /\ IF r.err # NoErr
                        THEN /\ Return(ExpandReturn(r.res, <<>>, r.err))
                             /\ trace' = Append(trace, entry)
                             /\ UNCHANGED <<pos, last, cur>>
                             /\ UNCHANGED pvars
                        ELSE IF r.parse
                        THEN /\ epc' = "parsing"
                             /\ cur' = m
                             /\ input' = r.style
                             /\ p' = StartPos
                             /\ rules' = <<>>
                             /\ ppc' = "parse"
                             /\ UNCHANGED <<pos, last, ret, trace>>
                             /\ UNCHANGED <<selectors, chain, sel, decls, psheet, perr>>
                        ELSE /\ pos' = m.end
                             /\ last' = m.end
                             /\ trace' = Append(trace, entry)
                             /\ UNCHANGED <<cur, ret, epc>>
                             /\ UNCHANGED pvars
    /\ UNCHANGED <<query, opts, format, shortcuts>>
    /\ UNCHANGED <<cvars, kvars, hvars>>

\* ParseMapCSS has returned to the callback of a style: macro.
StyleParsed ==
    /\ epc = "parsing"
    /\ ppc = "ret"
    /\ res' = appendParsed(res, IF psheet = Nil THEN [Rules |-> <<>>] ELSE psheet[1],
                           IF perr = Nil THEN NoErr ELSE "ParseError")
    /\ trace' = Append(trace,
          [pass |-> "subst", start |-> cur.start, end |-> cur.end,
           content |-> cur.content, def |-> FALSE,
           value |-> <<>>, err |-> NoErr, geo |-> Nil, asked |-> Nil,
           parsed |-> Some([text |-> input, sheet |-> psheet, err |-> perr])])
    /\ pos' = cur.end
    /\ last' = cur.end
    /\ cur' = NoSpan
    /\ epc' = "subst"
    /\ input' = <<>>
    /\ p' = StartPos
    /\ rules' = <<>>
    /\ selectors' = <<>>
    /\ chain' = <<>>
    /\ sel' = ZeroSelector
    /\ decls' = <<>>
    /\ psheet' = Nil
    /\ perr' = Nil
    /\ ppc' = "idle"
    /\ UNCHANGED <<query, opts, format, shortcuts, out, ret>>
    /\ UNCHANGED <<cvars, kvars, hvars>>

Next == PreScan \/ Subst \/ StyleParsed \/ ParseNext

Spec == Init /\ [][Next]_vars

(***************************************************************************)
(* ParseMapCSS called on its own.                                          *)
(***************************************************************************)
\* Largest length of the enumerated stylesheet texts.
MaxStyleLen == 4

StyleAlphabets ==
    {{"a", "{", "}", ";", ":", " "},
     {"a", "[", "]", "{", "}", "="},
     {"a", "/", "*", "@", "{", "\n"},
     {"a", ",", ".", ":", "{", "}"}}

StyleTexts ==
    {<<"n","o","d","e"," ","{"," ","c","o","l","o","r",":"," ","r","e","d",";"," ","}">>, <<"w","a","y"," ","{"," ","c","o","l","o","r",":"," ","b","l","u","e",";"," ","}"," ","n","o","d","e"," ","{"," ","w","i","d","t","h",":"," ","2",";"," ","}">>,
     <<"w","a","y","[","h","i","g","h","w","a","y","=","p","r","i","m","a","r","y","]",","," ","w","a","y","[","h","i","g","h","w","a","y","=","s","e","c","o","n","d","a","r","y","]"," ","{"," ","c","o","l","o","r",":"," ","r","e","d",";"," ","}">>,
     <<"r","e","l","a","t","i","o","n","[","t","y","p","e","=","r","o","u","t","e","]"," ","w","a","y","[","h","i","g","h","w","a","y","]"," ","{"," ","c","o","l","o","r",":"," ","r","e","d",";"," ","}">>,
     <<"w","a","y"," ","{"," ","c","o","l","o","r",":"," ","r","e","d",";">>, <<"w","a","y","[","h","i","g","h","w","a","y"," ","{"," ","c","o","l","o","r",":"," ","r","e","d",";"," ","}">>,
     <<"/","*"," ","c"," ","*","/"," ","n","o","d","e","|","z","1","2","-","1","4",":",":","c","a","s","i","n","g",":","h","o","v","e","r",".","m","i","n","o","r"," ","{"," ","s","e","t"," ",".","x",";"," ","s","e","t"," ","t","=","v",";"," ","c","o","l","o","r",":"," ","#","f","f","f",";"," ","}">>,
     <<"@","i","m","p","o","r","t"," ","u","r","l","(","x",")",";"," ","n","o","d","e","[","n","a","m","e","=","~","/","a","(","b","/","]"," ","{"," ","}">>, <<"n","o","d","e"," ","{"," ","c","o","l","o","r",":"," ","r","e","d",";",";"," ","}">>,
     <<"a","{","}"," ","/","*"," ","{"," ","*","/"," ","b","{","c",":","d","}"," ","/","/"," ","}","\n","*","{","}">>,
     <<"a"," ","b"," ","c","{","}">>,
     <<"a"," ","{"," ","s","e","t"," ",".","b",";"," ","}">>,
     <<"a","{","}"," ","b","{","c",":","d">>}

StyleInputs ==
    StyleTexts \cup UNION {UNION {[1..n -> A] : n \in 0..MaxStyleLen} : A \in StyleAlphabets}

InitParse ==
    /\ query = <<>>
    /\ opts = NoOptions
    /\ format = FormatQL
    /\ shortcuts = EmptyMap
    /\ res = ZeroResult
    /\ pos = 0
    /\ out = <<>>
    /\ last = 0
    /\ cur = NoSpan
    /\ ret = NoReturn
    /\ trace = <<>>
    /\ epc = "none"
    /\ input = <<>>
    /\ p = StartPos
    /\ rules = <<>>
    /\ selectors = <<>>
    /\ chain = <<>>
    /\ sel = ZeroSelector
    /\ decls = <<>>
    /\ psheet = Nil
    /\ perr = Nil
    /\ ppc = "call"
    /\ NoCalls
    /\ NoQueries
    /\ NoCache

\* ParseMapCSS(input): the parser is built on the input and parse is entered.
ParseMapCSS ==
    /\ ppc = "call"
    /\ input' \in StyleInputs
    /\ p' = StartPos
    /\ ppc' = "parse"
    /\ UNCHANGED <<rules, selectors, chain, sel, decls, psheet, perr>>
    /\ UNCHANGED evars
    /\ UNCHANGED <<cvars, kvars, hvars>>

NextParse == ParseMapCSS \/ ParseNext

SpecParse == InitParse /\ [][NextParse]_vars

(***************************************************************************)
(* The values of declarations.  ParseMapCSS is called on stylesheets of    *)
(* one rule whose block holds a property declaration or a set directive,   *)
(* and parseValue on the Raw text of a Value of the returned Stylesheet;   *)
(* parseHexColorValue is called on hex texts and Hex on the Color it       *)
(* returns.                                                                *)
(***************************************************************************)
MaxValueLen == 3

MaxHexLen == 4

ValueAlphabet == {"1", ",", ".", "e", "#"}

ValueTexts ==
    {<<"r","e","d">>, <<"R","E","D">>, <<"G","r","a","y">>, <<"5">>, <<"-","1",".","5">>, <<".","5">>, <<"1","e","3">>, <<"i","n","f">>, <<"n","a","n">>, <<"1",",","2">>, <<"1",","," ","2",".","5">>,
     <<"1",",","x">>, <<"u","r","l","(","x",")">>, <<"u","r","l","(",")">>, <<"U","R","L","(","x",")">>, <<"e","v","a","l","(","1",")">>, <<"r","g","b","(","1",",","0",",","0",")">>, <<"r","g","b","(","1",",","0",")">>,
     <<"r","g","b","a","(","1",",","0",",","0",",","1",")">>, <<"#","a","b","c">>, <<"#","a","b">>, <<"#","a","a","b","b","c","c","d","d">>, <<"\"","q","\"">>, <<"'","r","e","d","'">>, <<"y","e","s">>, <<"x"," ","y">>, <<" ">>,
     <<" ","b","l","u","e"," ">>, <<"5","p","x">>, <<"a","(","b",",","1",")">>, <<"/","r","/">>}

DeclHeads == {<<"b",":">>, <<"b"," ",":"," ">>, <<"s","e","t"," ","t","=">>, <<"s","e","t"," ",".">>, <<"s","e","t"," ">>, <<"s","e","t","b",":">>, <<"s","e","t","b","=">>}

DeclTails == {<<"}">>, <<";","}">>}

DeclInputs ==
    {<<"a","{">> \o h \o v \o t :
        h \in DeclHeads,
        v \in ValueTexts \cup UNION {[1..n -> ValueAlphabet] : n \in 0..MaxValueLen},
        t \in DeclTails}

HexDigits == {Digits[i] : i \in 1..10} \cup {LowerLetters[i] : i \in 1..6}
                 \cup {UpperLetters[i] : i \in 1..6}

HexAlphabet == {"0", "8", "f", "F"}

HexInputs ==
    {<<"#">> \o s : s \in UNION {[1..n -> HexAlphabet] : n \in 0..MaxHexLen}}
        \cup {<<"#", c, d, d, c, c, c>> : c \in HexDigits, d \in HexDigits}
        \cup {<<"#", "1", "2", "a", "B", "c", "D", c, d>> : c \in HexDigits, d \in HexDigits}
        \cup {<<>>, <<"a","b","c">>, <<"A","1","b","2","C","3">>, <<"#","1","2","3","4","5">>, <<"#","1","2","3","4","5","6","7">>, <<"#","1","2","3","4","5","6","7","8","9">>, <<"#","g","g","g">>, <<"#","#","a","b","c">>}

\* ParseMapCSS(input) on a stylesheet with one declaration.
ParseMapCSSDeclaration ==
    /\ ppc = "call"
    /\ input' \in DeclInputs
    /\ p' = StartPos
    /\ ppc' = "parse"
    /\ UNCHANGED <<rules, selectors, chain, sel, decls, psheet, perr>>
    /\ UNCHANGED evars
    /\ UNCHANGED <<cvars, kvars, hvars>>

\* parseValue on a parser whose input is the Raw text of a Value of the
\* Stylesheet that ParseMapCSS returned.
ParseValueAgain ==
    /\ ppc = "ret"
    /\ psheet # Nil
    /\ again = Nil
    /\ \E i \in 1..Len(psheet[1].Rules) :
          \E j \in 1..Len(psheet[1].Rules[i].Declarations) :
             \E d \in {psheet[1].Rules[i].Declarations[j]} :
                \E v \in {parseValue(d.Value.Raw, StartPos)} :
                   again' = Some([decl |-> d, value |-> v.value, err |-> v.err])
    /\ UNCHANGED <<hexin, hexout>>
    /\ UNCHANGED pvars
    /\ UNCHANGED evars
    /\ UNCHANGED <<kvars, hvars>>

\* parseHexColorValue(hexin) and, when it returns a Color, Hex() of it.
HexOfParsed ==
    /\ ppc = "call"
    /\ \E h \in HexInputs :
          /\ hexin' = h
          /\ \E c \in {parseHexColorValue(h)} :
                hexout' = [color |-> c.color, err |-> c.err,
                           hex |-> IF c.color = Nil THEN Nil ELSE Some(Hex(c.color[1]))]
    /\ ppc' = "hex"
    /\ UNCHANGED <<input, p, rules, selectors, chain, sel, decls, psheet, perr>>
    /\ UNCHANGED again
    /\ UNCHANGED evars
    /\ UNCHANGED <<kvars, hvars>>

NextValues == ParseMapCSSDeclaration \/ ParseNext \/ ParseValueAgain \/ HexOfParsed

SpecValues == InitParse /\ [][NextValues]_vars

(***************************************************************************)
(* client.go, query.go, retry.go: a Client built by NewWithRetry, its      *)
(* cache left disabled, and QueryContext called on it by several           *)
(* goroutines.  A step of a goroutine runs from one access to the          *)
(* semaphore or to the network to the next.                                *)
(***************************************************************************)
\* The goroutines calling QueryContext.
MaxCalls == 2

\* Largest RetryConfig.MaxRetries the Client is built with.
MaxRetriesBound == 1

StatusOK == 200

\* The status codes the server answers with.
Statuses == {StatusOK, 404, 429, 500, 502, 503, 504}

\* What httpClient.Do gives back: an error of the transport, or a response.
Responses ==
    {[failed |-> TRUE, StatusCode |-> 0]}
        \cup {[failed |-> FALSE, StatusCode |-> s] : s \in Statuses}

NoHTTPResponse == [failed |-> FALSE, StatusCode |-> 0]

\* The errors of QueryContext: none, an error of the transport, a
\* ServerError with its status, the error of the context, and the error of
\* retryableHTTPPost wrapping the last one.
NoError == [kind |-> "nil", StatusCode |-> 0, wraps |-> "nil"]

HTTPError == [kind |-> "http error", StatusCode |-> 0, wraps |-> "nil"]

ServerError(code) == [kind |-> "ServerError", StatusCode |-> code, wraps |-> "nil"]

ContextError == [kind |-> "context", StatusCode |-> 0, wraps |-> "nil"]

MaxRetriesExceeded(lastErr) ==
    [kind |-> "max retries exceeded", StatusCode |-> lastErr.StatusCode,
     wraps |-> lastErr.kind]

\* isRetryableStatus as it would be if every status but 200 were retried.
isRetryableStatusNotOK(statusCode) == statusCode # StatusOK

isRetryableStatus(statusCode) == statusCode \in {429, 500, 502, 503, 504}

\* What httpPost returns for what httpClient.Do gave back.
httpPost(resp) ==
    IF resp.failed THEN [ok |-> FALSE, err |-> HTTPError]
    ELSE IF resp.StatusCode # StatusOK
         THEN [ok |-> FALSE, err |-> ServerError(resp.StatusCode)]
         ELSE [ok |-> TRUE, err |-> NoError]

\* A goroutine before its call of QueryContext.  made counts the requests
\* handed to httpClient.Do and resp is the last thing Do gave back.
NewCall ==
    [pc |-> "call", attempt |-> 0, lastErr |-> NoError, made |-> 0,
     resp |-> NoHTTPResponse, ok |-> FALSE, err |-> NoError]

\* return from QueryContext: the locals of the call are gone.
Finish(c, ok, err) ==
    [c EXCEPT !.pc = "done", !.attempt = 0, !.lastErr = NoError, !.ok = ok, !.err = err]

\* retryableHTTPPost on what httpPost returned in the iteration attempt: the
\* call returns, or goes to the backoff and the next iteration.
retryableHTTPPost(c, r, maxRetries) ==
    IF r.ok THEN Finish(c, TRUE, NoError)
    ELSE IF r.err.kind # "ServerError" \/ ~isRetryableStatus(r.err.StatusCode)
         THEN Finish(c, FALSE, r.err)
         ELSE IF c.attempt < maxRetries
              THEN [c EXCEPT !.pc = "loop", !.attempt = c.attempt + 1, !.lastErr = r.err]
              ELSE Finish(c, FALSE, MaxRetriesExceeded(r.err))

\* The deferred send of httpPost as it would be if it ran on success only.
releaseOnSuccess(tokens, r) == IF r.ok THEN tokens + 1 ELSE tokens

\* The deferred send of httpPost: the token goes back however httpPost ends.
release(tokens, r) == tokens + 1

\* The state of a Client built by NewWithRetry(endpoint, maxParallel,
\* httpClient, retryConfig) and of the goroutines about to call QueryContext.
InitClient ==
    /\ ExpandIdle
    /\ ParserIdle
    /\ NoCalls
    /\ NoCache
    /\ maxParallel \in 1..MaxCalls
    /\ semaphore = maxParallel
    /\ retryConfig \in [MaxRetries : 0..MaxRetriesBound]
    /\ callers = [i \in 1..MaxCalls |-> NewCall]

\* QueryContext up to the first wait: cache.get misses, the cache being
\* disabled; with MaxRetries > 0 retryableHTTPPost is entered, otherwise
\* httpPost.
QueryContext ==
    /\ \E i \in DOMAIN callers :
          /\ callers[i].pc = "call"
          /\ callers' = [callers EXCEPT ![i].pc =
                          IF retryConfig.MaxRetries > 0 THEN "loop" ELSE "wait"]
    /\ UNCHANGED <<semaphore, maxParallel, retryConfig>>
    /\ UNCHANGED <<evars, pvars, cvars, hvars>>

\* retryableHTTPPost before an attempt, the backoff of the attempt before
\* being over or cut short: the context is done or it is not.
LoopTop ==
    /\ \E i \in DOMAIN callers :
          /\ callers[i].pc = "loop"
          /\ \E done \in BOOLEAN :
                callers' = [callers EXCEPT ![i] =
                             IF done THEN Finish(callers[i], FALSE, ContextError)
                             ELSE [callers[i] EXCEPT !.pc = "wait"]]
    /\ UNCHANGED <<semaphore, maxParallel, retryConfig>>
    /\ UNCHANGED <<evars, pvars, cvars, hvars>>

\* httpPost: a token is received from the semaphore and the request is
\* handed to httpClient.Do.
Acquire ==
    /\ semaphore > 0
    /\ semaphore' = semaphore - 1
    /\ \E i \in DOMAIN callers :
          /\ callers[i].pc = "wait"
          /\ callers' = [callers EXCEPT ![i].pc = "flight", ![i].made = callers[i].made + 1]
    /\ UNCHANGED <<maxParallel, retryConfig>>
    /\ UNCHANGED <<evars, pvars, cvars, hvars>>

\* httpClient.Do gives back what it gives back, httpPost returns and its
\* deferred function sends the token; the caller goes on to its next wait
\* or returns.
HTTPDone ==
    /\ semaphore < maxParallel
    /\ \E i \in DOMAIN callers :
          /\ callers[i].pc = "flight"
          /\ \E resp \in Responses :
                \E r \in {httpPost(resp)} :
                   /\ semaphore' = release(semaphore, r)
                   /\ callers' = [callers EXCEPT ![i] =
                                   IF retryConfig.MaxRetries > 0
                                   THEN retryableHTTPPost([callers[i] EXCEPT !.resp = resp], r,
                                                          retryConfig.MaxRetries)
                                   ELSE Finish([callers[i] EXCEPT !.resp = resp], r.ok, r.err)]
    /\ UNCHANGED <<maxParallel, retryConfig>>
    /\ UNCHANGED <<evars, pvars, cvars, hvars>>

NextClient == QueryContext \/ LoopTop \/ Acquire \/ HTTPDone

SpecClient == InitClient /\ [][NextClient]_vars

(***************************************************************************)
(* cache.go: one cache and the goroutines calling get, set, cleanup and    *)
(* clear on it.  A step of a goroutine runs from one operation on the      *)
(* mutex or reading of the clock to the next.                              *)
(***************************************************************************)
\* The goroutines working on the cache.
MaxRoutines == 2

\* The last reading of the clock.
MaxClock == 2

CacheEndpoints == {<<"e">>}

CacheQueries == {<<"q">>, <<"r">>}

\* The cached Results, told apart by their Count.
CacheResults == {1, 2}

\* CacheConfig: disabled, unlimited, and limited to one entry; the TTL is
\* one tick of the clock.
CacheConfigs ==
    {[Enabled |-> FALSE, TTL |-> 1, MaxEntries |-> 0],
     [Enabled |-> TRUE, TTL |-> 1, MaxEntries |-> 0],
     [Enabled |-> TRUE, TTL |-> 1, MaxEntries |-> 1]}

\* The hash of the endpoint followed by the query: one key per text hashed.
generateKey(endpoint, q) == endpoint \o q

\* delete(m, k) in Go.
MapDelete(m, k) == [x \in DOMAIN m \ {k} |-> m[x]]

\* time.Now().After(t)
After(instant, t) == instant > t

\* A goroutine between two calls.
RoutineIdle == [pc |-> "idle", key |-> <<>>, result |-> 0, entry |-> Nil]

\* The RWMutex: the goroutine holding the write lock, 0 for none, and the
\* goroutines holding read locks.
Unlocked == [writer |-> 0, readers |-> {}]

\* The state of newCache(config).
InitCache ==
    /\ ExpandIdle
    /\ ParserIdle
    /\ NoCalls
    /\ NoQueries
    /\ cacheConfig \in CacheConfigs
    /\ cacheEntries = EmptyMap
    /\ mu = Unlocked
    /\ clock = 0
    /\ routines = [i \in 1..MaxRoutines |-> RoutineIdle]

\* A goroutine calls get, set, cleanup or clear; get, set and cleanup return
\* at once when the cache is disabled.
CacheCall ==
    /\ \E i \in DOMAIN routines :
          /\ routines[i].pc = "idle"
          /\ \E op \in {"get", "set", "cleanup", "clear"} :
                \E endpoint \in CacheEndpoints, q \in CacheQueries, result \in CacheResults :
                   routines' = [routines EXCEPT ![i] =
                       IF op # "clear" /\ ~cacheConfig.Enabled THEN RoutineIdle
                       ELSE IF op = "get"
                            THEN [RoutineIdle EXCEPT !.pc = "get.rlock",
                                                     !.key = generateKey(endpoint, q)]
                       ELSE IF op = "set"
                            THEN [RoutineIdle EXCEPT !.pc = "set.lock",
                                                     !.key = generateKey(endpoint, q),
                                                     !.result = result]
                       ELSE IF op = "cleanup"
                            THEN [RoutineIdle EXCEPT !.pc = "cleanup.lock"]
                            ELSE [RoutineIdle EXCEPT !.pc = "clear.lock"]]
    /\ UNCHANGED <<cacheEntries, cacheConfig, mu, clock>>
    /\ UNCHANGED <<evars, pvars, cvars, kvars>>

\* c.mu.RLock() of get: no goroutine holds the write lock.
RLock ==
    /\ mu.writer = 0
    /\ \E i \in DOMAIN routines :
          /\ routines[i].pc = "get.rlock"
          /\ routines' = [routines EXCEPT ![i].pc = "get.read"]
          /\ mu' = [mu EXCEPT !.readers = mu.readers \cup {i}]
    /\ UNCHANGED <<cacheEntries, cacheConfig, clock>>
    /\ UNCHANGED <<evars, pvars, cvars, kvars>>

\* get under the read lock: the entry of the key is read and the lock
\* released; without an entry get returns a miss.
GetRead ==
    /\ \E i \in DOMAIN routines :
          /\ routines[i].pc = "get.read"
          /\ routines' = [routines EXCEPT ![i] =
                IF routines[i].key \in DOMAIN cacheEntries
                THEN [routines[i] EXCEPT !.pc = "get.check",
                                         !.entry = Some(cacheEntries[routines[i].key])]
                ELSE RoutineIdle]
          /\ mu' = [mu EXCEPT !.readers = mu.readers \ {i}]
    /\ UNCHANGED <<cacheEntries, cacheConfig, clock>>
    /\ UNCHANGED <<evars, pvars, cvars, kvars>>

\* get after the read lock: the clock is read; an entry not expired is
\* returned, an expired one is to be removed.
GetCheck ==
    /\ \E i \in DOMAIN routines :
          /\ routines[i].pc = "get.check"
          /\ routines' = [routines EXCEPT ![i] =
                IF After(clock, routines[i].entry[1].expiresAt)
                THEN [routines[i] EXCEPT !.pc = "get.lock"]
                ELSE RoutineIdle]
    /\ UNCHANGED <<cacheEntries, cacheConfig, mu, clock>>
    /\ UNCHANGED <<evars, pvars, cvars, kvars>>

\* c.mu.Lock() of get, set, cleanup and clear: no goroutine holds a lock.
Lock ==
    /\ mu = Unlocked
    /\ \E i \in DOMAIN routines :
          /\ routines[i].pc \in {"get.lock", "set.lock", "cleanup.lock", "clear.lock"}
          /\ routines' = [routines EXCEPT ![i].pc =
                CASE routines[i].pc = "get.lock" -> "get.delete"
                  [] routines[i].pc = "set.lock" -> "set.store"
                  [] routines[i].pc = "cleanup.lock" -> "cleanup.sweep"
                  [] OTHER -> "clear.reset"]
          /\ mu' = [mu EXCEPT !.writer = i]
    /\ UNCHANGED <<cacheEntries, cacheConfig, clock>>
    /\ UNCHANGED <<evars, pvars, cvars, kvars>>

\* get under the write lock: the entry of the key is deleted, the lock
\* released and a miss returned.
GetDelete ==
    /\ \E i \in DOMAIN routines :
          /\ routines[i].pc = "get.delete"
          /\ cacheEntries' = MapDelete(cacheEntries, routines[i].key)
          /\ routines' = [routines EXCEPT ![i] = RoutineIdle]
    /\ mu' = Unlocked
    /\ UNCHANGED <<cacheConfig, clock>>
    /\ UNCHANGED <<evars, pvars, cvars, kvars>>

\* The cacheEntries set leaves in place before it stores: with MaxEntries
\* reached, one entry is gone whose expiry no other entry's is before.
evictOldest(m, maxEntries) ==
    IF maxEntries > 0 /\ Cardinality(DOMAIN m) >= maxEntries
    THEN {MapDelete(m, k) : k \in {x \in DOMAIN m :
                                       \A y \in DOMAIN m : m[y].expiresAt >= m[x].expiresAt}}
    ELSE {m}

\* set under the write lock: the oldest entry makes room, the result is
\* stored with its expiry and the lock released.
SetStore ==
    /\ \E i \in DOMAIN routines :
          /\ routines[i].pc = "set.store"
          /\ \E kept \in evictOldest(cacheEntries, cacheConfig.MaxEntries) :
                cacheEntries' = MapSet(kept, routines[i].key,
                                  [result |-> routines[i].result,
                                   expiresAt |-> clock + cacheConfig.TTL])
          /\ routines' = [routines EXCEPT ![i] = RoutineIdle]
    /\ mu' = Unlocked
    /\ UNCHANGED <<cacheConfig, clock>>
    /\ UNCHANGED <<evars, pvars, cvars, kvars>>

\* cleanup under the write lock: the expired cacheEntries are deleted.
CleanupSweep ==
    /\ \E i \in DOMAIN routines :
          /\ routines[i].pc = "cleanup.sweep"
          /\ routines' = [routines EXCEPT ![i] = RoutineIdle]
    /\ cacheEntries' = [k \in {x \in DOMAIN cacheEntries : ~After(clock, cacheEntries[x].expiresAt)}
                      |-> cacheEntries[k]]
    /\ mu' = Unlocked
    /\ UNCHANGED <<cacheConfig, clock>>
    /\ UNCHANGED <<evars, pvars, cvars, kvars>>

\* clear under the write lock: the map is replaced by an empty one.
ClearReset ==
    /\ \E i \in DOMAIN routines :
          /\ routines[i].pc = "clear.reset"
          /\ routines' = [routines EXCEPT ![i] = RoutineIdle]
    /\ cacheEntries' = EmptyMap
    /\ mu' = Unlocked
    /\ UNCHANGED <<cacheConfig, clock>>
    /\ UNCHANGED <<evars, pvars, cvars, kvars>>

\* The clock goes on.
Tick ==
    /\ clock < MaxClock
    /\ clock' = clock + 1
    /\ UNCHANGED <<cacheEntries, cacheConfig, mu, routines>>
    /\ UNCHANGED <<evars, pvars, cvars, kvars>>

NextCache ==
    \/ CacheCall
    \/ RLock
    \/ GetRead
    \/ GetCheck
    \/ Lock
    \/ GetDelete
    \/ SetStore
    \/ CleanupSweep
    \/ ClearReset
    \/ Tick

SpecCache == InitCache /\ [][NextCache]_vars

(***************************************************************************)
(* Claims.  The trace records, per macro span, what the pre-scan and the   *)
(* substitution pass did with it; the properties below read the spans'     *)
(* texts from it and state what Expand must have made of them.             *)
(***************************************************************************)
\* C1: no input makes ParseMapCSS loop forever, because every loop of the
\* parser consumes at least one character per iteration or exits.  For the
\* loop of parseDeclarations: the cursor at the call of parseDeclaration is
\* past whitespace and comments, so an iteration that goes round again has
\* moved it forward.
DeclarationsLoopConsumes ==
    [][ppc = "decl" /\ ppc' = "decls" => p'.pos > p.pos]_vars

PrescanEntries == SelectSeq(trace, LAMBDA e : e.pass = "prescan")

SubstEntries == SelectSeq(trace, LAMBDA e : e.pass = "subst")

Returned == epc = "done"

Succeeded == epc = "done" /\ ret.err = NoErr

\* C2: whenever Expand returns a non-nil error, the Result it returns is the
\* zero value, whatever style: and data: macros were processed before.
ErrorReturnsZeroResult ==
    Returned /\ ret.err # NoErr => ret.res = ZeroResult

\* An error of the substitution pass after a style: macro was recorded.
ErrorAfterStyleRecorded ==
    /\ Returned
    /\ ret.err # NoErr
    /\ res.Styles # <<>>
    /\ res.ParsedStyles # <<>>

\* The text of a span before and after its first "=".
FirstEq(c) == Min({i \in 1..Len(c) : c[i] = "="})

KeyOf(c) == TrimSpace(SubSeq(c, 1, FirstEq(c) - 1))

ValueOf(c) == TrimSpace(SubSeq(c, FirstEq(c) + 1, Len(c)))

\* The definition spans of the template, by their index among the spans.
DefinitionSpans == {j \in 1..Len(PrescanEntries) : PrescanEntries[j].def}

DefinedKeys == {KeyOf(PrescanEntries[j].content) : j \in DefinitionSpans}

\* The value of the last definition of key k in the template.
DefinedValue(k) ==
    ValueOf(PrescanEntries[
        Max({j \in DefinitionSpans : KeyOf(PrescanEntries[j].content) = k})].content)

\* The names the callback handles before it looks a shortcut up.
BuiltIn(k) ==
    \/ k \in {<<"b","b","o","x">>, <<"c","e","n","t","e","r">>}
    \/ HasPrefix(k, <<"d","a","t","e">>)
    \/ HasPrefix(k, <<"g","e","o","c","o","d","e">>)

\* C3 (amended): every definition span expands to the empty string, and every
\* use of a key the template defines, the key being none of bbox, center,
\* date..., geocode..., expands to the value of the key's last definition,
\* whether the use stands before or after the definition.
DefinedKeysResolve ==
    \A i \in 1..Len(trace) :
        trace[i].pass = "subst" =>
            LET k == TrimSpace(trace[i].content)
            IN  /\ trace[i].def => trace[i].value = <<>> /\ trace[i].err = NoErr
                /\ ~trace[i].def /\ ~BuiltIn(k) /\ k \in DefinedKeys
                   => trace[i].err = NoErr /\ trace[i].value = DefinedValue(k)

\* C3 as stated: every use of a key the template defines expands to the
\* defined value.
EveryDefinedKeyResolves ==
    \A i \in 1..Len(trace) :
        trace[i].pass = "subst" =>
            LET k == TrimSpace(trace[i].content)
            IN  ~trace[i].def /\ k \in DefinedKeys
                   => trace[i].err = NoErr /\ trace[i].value = DefinedValue(k)

\* A use that stands before the definition of its key has expanded to the
\* defined value and Expand has returned the text.
ForwardReferenceResolved ==
    /\ Succeeded
    /\ \E i, j \in 1..Len(PrescanEntries) :
          /\ i < j
          /\ ~PrescanEntries[i].def
          /\ PrescanEntries[j].def
          /\ TrimSpace(PrescanEntries[i].content) = KeyOf(PrescanEntries[j].content)
          /\ ValueOf(PrescanEntries[j].content) # <<>>
          /\ ret.res.Query = ValueOf(PrescanEntries[j].content)

EqCount(c) == Cardinality({i \in 1..Len(c) : c[i] = "="})

NotDataOrStyle(c) ==
    LET t == TrimSpace(c)
    IN  ~HasPrefix(t, <<"d","a","t","a",":">>) /\ ~HasPrefix(t, <<"s","t","y","l","e",":">>)

KeyAccepted(c) ==
    LET k == KeyOf(c)
    IN  k # <<>> /\ ~Contains(k, <<":">>)

\* C4 (amended): a span is treated as a shortcut definition if and only if
\* its content does not start with data: or style: and contains at least one
\* "=", the text before the first "=" being a non-empty key without ":".
DefinitionIffFirstEqSplits ==
    \A i \in 1..Len(trace) :
        trace[i].def <=>
            /\ EqCount(trace[i].content) >= 1
            /\ NotDataOrStyle(trace[i].content)
            /\ KeyAccepted(trace[i].content)

\* C4 as stated: ... and contains exactly one "=".
DefinitionIffExactlyOneEq ==
    \A i \in 1..Len(trace) :
        trace[i].def <=>
            /\ EqCount(trace[i].content) = 1
            /\ NotDataOrStyle(trace[i].content)
            /\ KeyAccepted(trace[i].content)

\* A span with two "=" was taken as a definition and a use got its value.
TwoEqDefinitionUsed ==
    /\ Succeeded
    /\ \E i, j \in 1..Len(trace) :
          /\ trace[i].pass = "prescan"
          /\ trace[i].def
          /\ EqCount(trace[i].content) >= 2
          /\ trace[j].pass = "subst"
          /\ ~trace[j].def
          /\ TrimSpace(trace[j].content) = KeyOf(trace[i].content)
          /\ trace[j].value = ValueOf(trace[i].content)

IsStyle(e) == e.pass = "subst" /\ HasPrefix(TrimSpace(e.content), <<"s","t","y","l","e",":">>)

\* The trimmed text after "style:".
StyleText(e) ==
    LET t == TrimSpace(e.content)
    IN  TrimSpace(SubSeq(t, 7, Len(t)))

StyleMacros == SelectSeq(trace, IsStyle)

\* The callback is between two macros or Expand has returned.
BetweenMacros == epc \in {"subst", "done"}

\* C5 (amended): every style: macro expands to the empty string and sets
\* Style to its trimmed text; Styles holds, in template order, the trimmed
\* texts of the style: macros whose text is not empty.
StylesHoldNonEmptyTexts ==
    /\ \A i \in 1..Len(trace) :
          IsStyle(trace[i]) => trace[i].value = <<>> /\ trace[i].err = NoErr
    /\ BetweenMacros =>
          LET texts == [i \in 1..Len(StyleMacros) |-> StyleText(StyleMacros[i])]
          IN  /\ res.Styles = SelectSeq(texts, LAMBDA t : t # <<>>)
              /\ res.Style = IF texts = <<>> THEN <<>> ELSE texts[Len(texts)]
    /\ Succeeded => ret.res.Styles = res.Styles /\ ret.res.Style = res.Style

\* C5 as stated: after a successful Expand, Styles has one entry per style:
\* macro and Style is the last entry of Styles.
OneStylesEntryPerMacro ==
    Succeeded =>
        /\ Len(ret.res.Styles) = Len(StyleMacros)
        /\ StyleMacros # <<>> =>
              /\ ret.res.Styles # <<>>
              /\ ret.res.Style = ret.res.Styles[Len(ret.res.Styles)]

\* Expand has returned from a template with a style: macro of empty text
\* and one with a text.
EmptyAndNonEmptyStyle ==
    /\ Succeeded
    /\ ret.res.Styles # <<>>
    /\ Len(StyleMacros) > Len(ret.res.Styles)

\* What ParseMapCSS returned for each style text, in template order.
ParseReturns ==
    LET E == SelectSeq(trace, LAMBDA e : e.parsed # Nil)
    IN  [i \in 1..Len(E) |-> E[i].parsed[1]]

\* C6: ParsedStyles is as long as Styles, ParsedStyles[i] is the stylesheet
\* ParseMapCSS returned for Styles[i], or nil when it returned an error, and
\* a style: macro never makes the callback return an error.
ParsedStylesParallelStyles ==
    /\ \A i \in 1..Len(trace) : IsStyle(trace[i]) => trace[i].err = NoErr
    /\ Returned => Len(ret.res.ParsedStyles) = Len(ret.res.Styles)
    /\ Succeeded => ret.res.ParsedStyles = res.ParsedStyles /\ ret.res.Styles = res.Styles
    /\ BetweenMacros =>
          /\ Len(res.ParsedStyles) = Len(res.Styles)
          /\ Len(ParseReturns) = Len(res.Styles)
          /\ \A i \in 1..Len(ParseReturns) :
                /\ ParseReturns[i].text = res.Styles[i]
                /\ res.ParsedStyles[i] =
                      IF ParseReturns[i].err # Nil THEN Nil ELSE ParseReturns[i].sheet

\* Expand has returned a Result with a nil and a non-nil parsed stylesheet.
NilAndParsedStylesheet ==
    /\ Succeeded
    /\ \E i, j \in 1..Len(ret.res.ParsedStyles) :
          /\ ret.res.ParsedStyles[i] = Nil
          /\ ret.res.ParsedStyles[j] # Nil
          /\ ret.res.ParsedStyles[j][1].Rules # <<>>

\* C7: in every Result returned by Expand, EndpointOverride is non-empty only
\* if Data.Mode case-insensitively equals "overpass", and DataServer equals
\* Data.Options["server"], empty when that macro has no server option.
ServerFieldsDescribeData ==
    Succeeded /\ ret.res.Data # Nil =>
        /\ ret.res.EndpointOverride # <<>> =>
              EqualFold(ret.res.Data[1].Mode, <<"o","v","e","r","p","a","s","s">>)
        /\ ret.res.DataServer =
              IF <<"s","e","r","v","e","r">> \in DOMAIN ret.res.Data[1].Options
              THEN ret.res.Data[1].Options[<<"s","e","r","v","e","r">>]
              ELSE <<>>

\* The server text trimmed of whitespace and of one trailing slash.
TrimmedServer(s) ==
    IF TrimSpace(s) # <<>> /\ TrimSpace(s)[Len(TrimSpace(s))] = "/"
    THEN SubSeq(TrimSpace(s), 1, Len(TrimSpace(s)) - 1)
    ELSE TrimSpace(s)

\* The endpoint as the claim derives it.
StatedEndpoint(s) ==
    IF HasSuffix(TrimmedServer(s), <<"/","a","p","i">>)
    THEN TrimmedServer(s) \o <<"/","i","n","t","e","r","p","r","e","t","e","r">>
    ELSE TrimmedServer(s)

\* The endpoint with the case the claim leaves out: a text that still ends
\* with "/api/" loses that slash and gets /interpreter appended.
AmendedEndpoint(s) ==
    IF HasSuffix(TrimmedServer(s), <<"/","a","p","i">>)
    THEN TrimmedServer(s) \o <<"/","i","n","t","e","r","p","r","e","t","e","r">>
    ELSE IF Contains(TrimmedServer(s), <<"/","a","p","i","/","i","n","t","e","r","p","r","e","t","e","r">>)
    THEN TrimmedServer(s)
    ELSE IF HasSuffix(TrimmedServer(s), <<"/","a","p","i","/">>)
    THEN SubSeq(TrimmedServer(s), 1, Len(TrimmedServer(s)) - 1) \o <<"/","i","n","t","e","r","p","r","e","t","e","r">>
    ELSE TrimmedServer(s)

\* The last macro processed was a data: macro of mode overpass with a
\* server option.
OverpassServerMacro ==
    /\ BetweenMacros
    /\ trace # <<>>
    /\ trace[Len(trace)].pass = "subst"
    /\ HasPrefix(TrimSpace(trace[Len(trace)].content), <<"d","a","t","a",":">>)
    /\ trace[Len(trace)].err = NoErr
    /\ res.Data # Nil
    /\ EqualFold(res.Data[1].Mode, <<"o","v","e","r","p","a","s","s">>)
    /\ <<"s","e","r","v","e","r">> \in DOMAIN res.Data[1].Options

\* C8 (amended): for a data:overpass macro with a server option,
\* EndpointOverride is the server text trimmed of whitespace and one trailing
\* slash, with /interpreter appended if it ends with /api, unchanged if it
\* contains /api/interpreter, with the slash replaced by /interpreter if it
\* still ends with /api/, and unchanged otherwise; a server ending in /api or
\* /api/ yields an EndpointOverride ending in /api/interpreter.
EndpointNormalised ==
    OverpassServerMacro =>
        /\ res.EndpointOverride = AmendedEndpoint(res.Data[1].Options[<<"s","e","r","v","e","r">>])
        /\ (\/ HasSuffix(res.Data[1].Options[<<"s","e","r","v","e","r">>], <<"/","a","p","i">>)
            \/ HasSuffix(res.Data[1].Options[<<"s","e","r","v","e","r">>], <<"/","a","p","i","/">>))
           => HasSuffix(res.EndpointOverride, <<"/","a","p","i","/","i","n","t","e","r","p","r","e","t","e","r">>)

\* C8 as stated: ... if the result ends with /api, /interpreter is appended,
\* otherwise it is left unchanged.
EndpointAsStated ==
    OverpassServerMacro =>
        res.EndpointOverride = StatedEndpoint(res.Data[1].Options[<<"s","e","r","v","e","r">>])

\* A server text that ends with "/api/" after the trailing slash is trimmed.
DoubleSlashServer ==
    /\ OverpassServerMacro
    /\ Succeeded
    /\ HasSuffix(TrimmedServer(res.Data[1].Options[<<"s","e","r","v","e","r">>]), <<"/","a","p","i","/">>)
    /\ ret.res.EndpointOverride = <<"h","/","a","p","i","/","i","n","t","e","r","p","r","e","t","e","r">>

\* A span that is a geocodeId, geocodeArea, geocodeBbox or geocodeCoords macro.
IsGeocodeMacro(e) ==
    /\ ~e.def
    /\ \E kind \in {<<"g","e","o","c","o","d","e","I","d">>, <<"g","e","o","c","o","d","e","A","r","e","a">>, <<"g","e","o","c","o","d","e","B","b","o","x">>, <<"g","e","o","c","o","d","e","C","o","o","r","d","s">>} :
          HasPrefix(TrimSpace(e.content), kind)

GeocodeSpans == {i \in 1..Len(PrescanEntries) : IsGeocodeMacro(PrescanEntries[i])}

\* No macro before span i has failed in the substitution pass.
NoEarlierFailure(i) ==
    \A j \in 1..Len(SubstEntries) : j < i => SubstEntries[j].err = NoErr

\* C9 (amended): if Options.Geocoder is nil and the pre-scan has succeeded, a
\* geocode macro with no earlier failing macro makes Expand return exactly
\* ErrMissingGeocoder; Expand never returns a successful Result for a
\* template with such a macro.
NilGeocoderFails ==
    Returned /\ opts.Geocoder = Nil =>
        /\ \A i \in GeocodeSpans :
              SubstEntries # <<>> /\ NoEarlierFailure(i)
                  => /\ ret.err = ErrMissingGeocoder
                     /\ Len(SubstEntries) = i
                     /\ SubstEntries[i].err = ErrMissingGeocoder
        /\ GeocodeSpans # {} => ret.err # NoErr

\* C9 as stated: no condition on the pre-scan.
NilGeocoderAlwaysMissingGeocoder ==
    Returned /\ opts.Geocoder = Nil =>
        \A i \in GeocodeSpans : NoEarlierFailure(i) => ret.err = ErrMissingGeocoder

\* Expand has returned ErrMissingGeocoder for a geocode macro that stands
\* after a macro that succeeded.
MissingGeocoderReturned ==
    /\ Returned
    /\ opts.Geocoder = Nil
    /\ ret.err = ErrMissingGeocoder
    /\ Len(SubstEntries) = 2
    /\ IsGeocodeMacro(SubstEntries[2])

\* 3600000000 + id and 2400000000 + id in decimal, for 0 < id < 10^9.
RelationAreaText(id) == NatToStr(36 + id \div 10^8) \o PadN(id % 10^8, 8)

WayAreaText(id) == NatToStr(24 + id \div 10^8) \o PadN(id % 10^8, 8)

AreaMarkup(fmt, id) ==
    IF fmt = FormatXML THEN <<"t","y","p","e","=","\"","a","r","e","a","\""," ","r","e","f","=","\"">> \o id \o <<"\"">>
    ELSE <<"a","r","e","a","(">> \o id \o <<")">>

\* A geocodeArea macro for which the geocoder returned a result.
IsAreaAnswer(e) ==
    /\ e.pass = "subst"
    /\ HasPrefix(TrimSpace(e.content), <<"g","e","o","c","o","d","e","A","r","e","a",":">>)
    /\ e.geo # Nil
    /\ ~e.geo[1].failed

OSMTypeIs(r, t) == ToLower(TrimSpace(r.OSMType)) = t

IsDateMacro(e) ==
    e.pass = "subst" /\ ~e.def /\ HasPrefix(TrimSpace(e.content), <<"d","a","t","e">>)

\* The instants 'now' can be: Options.Now, or a reading of the clock.
NowInstants == IF opts.Now # Nil THEN {opts.Now[1]} ELSE ClockTimes

UnitNames ==
    {<<"s","e","c","o","n","d">>, <<"s","e","c","o","n","d","s">>, <<"m","i","n","u","t","e">>, <<"m","i","n","u","t","e","s">>, <<"h","o","u","r">>, <<"h","o","u","r","s">>, <<"d","a","y">>, <<"d","a","y","s">>,
     <<"w","e","e","k">>, <<"w","e","e","k","s">>, <<"m","o","n","t","h">>, <<"m","o","n","t","h","s">>, <<"y","e","a","r">>, <<"y","e","a","r","s">>}

\* The text after date, read as :<N> <unit>: whether it has that form, N, and
\* the unit in lower case.
DateOffset(c) ==
    LET rest == TrimSpace(TrimPrefix(c, <<"d","a","t","e">>))
        fields == IF HasPrefix(rest, <<":">>) THEN Fields(TrimPrefix(rest, <<":">>)) ELSE <<>>
        n == IF Len(fields) = 2 THEN Atoi(fields[1]) ELSE [value |-> 0, ok |-> FALSE]
        unit == IF Len(fields) = 2 THEN ToLower(fields[2]) ELSE <<>>
    IN  [ok |-> n.ok /\ n.value >= 0 /\ unit \in UnitNames, n |-> n.value, unit |-> unit]

\* now minus n units, the seconds never multiplied out.
NowMinus(now, n, unit) ==
    LET back(days, secs) ==
            TimeAdd(now, [neg |-> TRUE, days |-> days, secs |-> secs, nsec |-> 0])
    IN  IF unit \in {<<"s","e","c","o","n","d">>, <<"s","e","c","o","n","d","s">>} THEN back(n \div 86400, n % 86400)
        ELSE IF unit \in {<<"m","i","n","u","t","e">>, <<"m","i","n","u","t","e","s">>} THEN back(n \div 1440, (n % 1440) * 60)
        ELSE IF unit \in {<<"h","o","u","r">>, <<"h","o","u","r","s">>} THEN back(n \div 24, (n % 24) * 3600)
        ELSE IF unit \in {<<"d","a","y">>, <<"d","a","y","s">>} THEN back(n, 0)
        ELSE IF unit \in {<<"w","e","e","k">>, <<"w","e","e","k","s">>} THEN back(7 * n, 0)
        ELSE IF unit \in {<<"m","o","n","t","h">>, <<"m","o","n","t","h","s">>} THEN TimeAddDate(now, 0, 0 - n)
        ELSE TimeAddDate(now, 0 - n, 0)

\* C11: a date macro that is no shortcut definition expands, for the bare
\* content date, to the instant 'now'; for date:<N> <unit> with N a
\* non-negative integer and a unit second(s) .. year(s) in any letter case,
\* to 'now' minus N units; and every other content starting with date makes
\* Expand fail with ErrBadMacro, also when a shortcut of that name is defined.
DateMacroExpands ==
    \A i \in 1..Len(trace) :
        IsDateMacro(trace[i]) =>
            LET c == TrimSpace(trace[i].content)
                d == DateOffset(c)
            IN  IF c = <<"d","a","t","e">>
                THEN /\ trace[i].err = NoErr
                     /\ \E now \in NowInstants : trace[i].value = FormatRFC3339Nano(now)
                ELSE IF d.ok
                THEN /\ trace[i].err = NoErr
                     /\ \E now \in NowInstants :
                           trace[i].value = FormatRFC3339Nano(NowMinus(now, d.n, d.unit))
                ELSE /\ trace[i].err = ErrBadMacro
                     /\ Returned
                     /\ ret.err = ErrBadMacro

\* The comma-separated parts after the mode of a data: macro that are not
\* blank: its options.
DataOptionTexts(c) ==
    LET parts == Split(TrimSpace(TrimPrefix(c, <<"d","a","t","a",":">>)), <<",">>)
    IN  SelectSeq(Tail(parts), LAMBDA part : TrimSpace(part) # <<>>)

\* A data: macro with an empty mode, an option lacking '=', or an option
\* with an empty key.
MalformedData(c) ==
    LET parts == Split(TrimSpace(TrimPrefix(c, <<"d","a","t","a",":">>)), <<",">>)
        options == DataOptionTexts(c)
    IN  /\ HasPrefix(c, <<"d","a","t","a",":">>)
        /\ \/ TrimSpace(parts[1]) = <<>>
           \/ \E j \in 1..Len(options) :
                 \/ ~Contains(options[j], <<"=">>)
                 \/ TrimSpace(Slice(options[j], 0, Index(options[j], <<"=">>))) = <<>>

\* A macro that is none of the supported forms.
Unsupported(c, isDef) ==
    \/ c = <<>>
    \/ /\ ~isDef
       /\ ~HasPrefix(c, <<"s","t","y","l","e",":">>)
       /\ ~HasPrefix(c, <<"d","a","t","a",":">>)
       /\ ~HasPrefix(c, <<"g","e","o","c","o","d","e">>)
       /\ c \notin {<<"b","b","o","x">>, <<"c","e","n","t","e","r">>}
       /\ ~HasPrefix(c, <<"d","a","t","e">>)
       /\ c \notin DOMAIN shortcuts

\* C12: a macro whose trimmed content is empty, or is none of a shortcut
\* definition, style:, data:, geocode.., bbox, center, date.. or a key of the
\* shortcuts table, and a data: macro with an empty mode, with an option
\* lacking '=' or with an option of empty key, make Expand return ErrBadMacro
\* with the zero Result: the macro is the last one the callback sees.
MalformedMacroAborts ==
    \A i \in 1..Len(trace) :
        LET c == TrimSpace(trace[i].content)
        IN  /\ trace[i].pass = "subst"
            /\ \/ Unsupported(c, trace[i].def)
               \/ ~trace[i].def /\ MalformedData(c)
            => /\ trace[i].err = ErrBadMacro
               /\ i = Len(trace)
               /\ Returned
               /\ ret.err = ErrBadMacro
               /\ ret.res = ZeroResult

\* Expand has returned ErrBadMacro for a data: macro one of whose options
\* has an empty key, after it had expanded a macro before it.
EmptyKeyAborted ==
    /\ Returned
    /\ ret.err = ErrBadMacro
    /\ Len(SubstEntries) >= 2
    /\ LET e == trace[Len(trace)]
       IN  /\ e.pass = "subst"
           /\ HasPrefix(TrimSpace(e.content), <<"d","a","t","a",":">>)
           /\ \E j \in 1..Len(DataOptionTexts(TrimSpace(e.content))) :
                 HasPrefix(TrimSpace(DataOptionTexts(TrimSpace(e.content))[j]), <<"=">>)

\* The flavor of the expansion: XML when Options.Format is FormatXML, or is
\* FormatAuto with one of the markers in the template.
XMLFlavor ==
    \/ opts.Format = FormatXML
    \/ /\ opts.Format = FormatAuto
       /\ Contains(query, <<"<","o","s","m","-","s","c","r","i","p","t">>) \/ Contains(query, <<"<","q","u","e","r","y">>)

BBoxText(b) ==
    IF XMLFlavor
    THEN <<"s","=","\"">> \o formatFloat(b.South) \o <<"\""," ","w","=","\"">> \o formatFloat(b.West) \o <<"\""," ","n","=","\"">>
         \o formatFloat(b.North) \o <<"\""," ","e","=","\"">> \o formatFloat(b.East) \o <<"\"">>
    ELSE formatFloat(b.South) \o <<",">> \o formatFloat(b.West) \o <<",">>
         \o formatFloat(b.North) \o <<",">> \o formatFloat(b.East)

CenterText(c) ==
    IF XMLFlavor
    THEN <<"l","a","t","=","\"">> \o formatFloat(c.Lat) \o <<"\""," ","l","o","n","=","\"">> \o formatFloat(c.Lon) \o <<"\"">>
    ELSE formatFloat(c.Lat) \o <<",">> \o formatFloat(c.Lon)

\* The last macro has failed with err, and Expand has returned err.
FailedWith(i, err) ==
    /\ trace[i].err = err
    /\ i = Len(trace)
    /\ Returned
    /\ ret.err = err

\* C13: the macros bbox and center expand from Options.BBox and
\* Options.Center, as S,W,N,E and lat,lon in the QL flavor and as
\* s="S" w="W" n="N" e="E" and lat="L" lon="O" in the XML flavor, the flavor
\* being XML iff Options.Format is FormatXML, or is FormatAuto with
\* <osm-script or <query in the template; with the option nil Expand
\* returns ErrMissingBBox, respectively ErrMissingCenter.
BBoxAndCenterExpand ==
    \A i \in 1..Len(trace) :
        LET c == TrimSpace(trace[i].content)
        IN  /\ trace[i].pass = "subst" /\ c = <<"b","b","o","x">> =>
                  IF opts.BBox = Nil THEN FailedWith(i, ErrMissingBBox)
                  ELSE trace[i].err = NoErr /\ trace[i].value = BBoxText(opts.BBox[1])
            /\ trace[i].pass = "subst" /\ c = <<"c","e","n","t","e","r">> =>
                  IF opts.Center = Nil THEN FailedWith(i, ErrMissingCenter)
                  ELSE trace[i].err = NoErr /\ trace[i].value = CenterText(opts.Center[1])

\* Expand has rendered the bbox macro with attributes because the template
\* holds the marker <query, and left the marker in the query.
BBoxAttributesByMarker ==
    /\ Succeeded
    /\ opts.Format = FormatAuto
    /\ ret.res.Query = <<"<","q","u","e","r","y","s","=","\"","1",".","1","\""," ","w","=","\"","2",".","2","\""," ","n","=","\"","3",".","3","\""," ","e","=","\"","4",".","4","\"">>

\* ParseMapCSS has returned; with a Stylesheet.
ParseReturned == ppc = "ret"

SheetReturned == ppc = "ret" /\ psheet # Nil

\* The offset of the first ch in text at or after offset from, or -1.
FirstAt(text, ch, from) ==
    LET S == {i \in from..(Len(text) - 1) : text[i + 1] = ch}
    IN  IF S = {} THEN 0 - 1 ELSE Min(S)

\* The top-level rule blocks of a stylesheet text from offset from on, read
\* off the text: after whitespace and comments a block runs from its first
\* character to the first '}' after its first '{'.  ok tells whether the
\* text ends after a complete block, atRule whether a block starts with '@'.
RECURSIVE RuleBlocks(_, _, _)
RuleBlocks(text, from, acc) ==
    LET start == skipWhitespaceAndComments(text, [pos |-> from, line |-> 1, col |-> 1]).pos
        open == FirstAt(text, "{", start)
        close == IF open = 0 - 1 THEN 0 - 1 ELSE FirstAt(text, "}", open + 1)
    IN  IF start >= Len(text) THEN [ok |-> TRUE, atRule |-> FALSE, blocks |-> acc]
        ELSE IF text[start + 1] = "@" THEN [ok |-> FALSE, atRule |-> TRUE, blocks |-> acc]
        ELSE IF open = 0 - 1 \/ close = 0 - 1
        THEN [ok |-> FALSE, atRule |-> FALSE, blocks |-> acc]
        ELSE RuleBlocks(text, close + 1,
                        Append(acc, [selector |-> Slice(text, start, open),
                                     body |-> Slice(text, open + 1, close)]))

\* The type a selector text begins with.
LeadingType(text) ==
    IF isLetter(text[1]) THEN parseIdent(text, StartPos).s
    ELSE IF text[1] = "*" THEN <<"*">>
    ELSE <<>>

\* A selector and its ancestors, the selector first, each without its link.
RECURSIVE Lineage(_)
Lineage(s) ==
    <<[s EXCEPT !.Parent = Nil]>> \o (IF s.Parent = Nil THEN <<>> ELSE Lineage(s.Parent[1]))

Reverse(seq) == [i \in 1..Len(seq) |-> seq[Len(seq) + 1 - i]]

\* C14: when ParseMapCSS returns a Stylesheet for a text made of N rule
\* blocks, with whitespace and comments between them and no at-rule, the
\* Stylesheet has exactly N Rules, and the i-th Rule is the one of the i-th
\* block: its first selector's outermost ancestor has the type the block
\* begins with.
RulesMatchBlocks ==
    SheetReturned =>
        LET b == RuleBlocks(input, 0, <<>>)
            R == psheet[1].Rules
        IN  b.ok =>
                /\ Len(R) = Len(b.blocks)
                /\ \A i \in 1..Len(R) :
                      LET line == Lineage(R[i].Selectors[1])
                      IN  line[Len(line)].Type = LeadingType(b.blocks[i].selector)

\* ParseMapCSS has returned three Rules for three blocks of different types
\* with a block comment and a line comment between them.
ThreeRulesInOrder ==
    /\ SheetReturned
    /\ Contains(input, <<"/","*">>) /\ Contains(input, <<"/","/">>)
    /\ Len(psheet[1].Rules) = 3
    /\ [i \in 1..3 |-> psheet[1].Rules[i].Selectors[1].Type] = <<<<"a">>, <<"b">>, <<"*">>>>

\* Whether a text is nothing but whitespace and comments.
IsBlank(text) == skipWhitespaceAndComments(text, StartPos).pos >= Len(text)

\* C15: every Rule of a returned Stylesheet has at least one Selector, and
\* its Declarations are empty only if its block holds nothing but whitespace
\* and comments.
RulesHaveSelectors ==
    SheetReturned =>
        LET b == RuleBlocks(input, 0, <<>>)
            R == psheet[1].Rules
        IN  /\ \A i \in 1..Len(R) : Len(R[i].Selectors) >= 1
            /\ b.ok =>
                  \A i \in 1..Len(R) :
                      R[i].Declarations = <<>> => IsBlank(b.blocks[i].body)

\* ParseMapCSS has returned a Rule without declarations for an empty block
\* and a Rule with a declaration for the block after it.
EmptyAndFilledBlock ==
    /\ SheetReturned
    /\ Len(psheet[1].Rules) >= 2
    /\ psheet[1].Rules[1].Declarations = <<>>
    /\ Len(psheet[1].Rules[2].Declarations) = 1

\* C16: when parseSelector has linked a chain of k single selectors, parsed
\* in source order, the selector it stores is the last of them and the
\* Parent links from it lead through the earlier ones, last to first, and
\* then to nil: k - 1 ancestors, the first-written one outermost.
ParentsAreEarlierSelectors ==
    ppc = "rule" /\ selectors # <<>> /\ chain # <<>> =>
        Lineage(selectors[Len(selectors)])
            = Reverse([i \in 1..Len(chain) |-> [chain[i] EXCEPT !.Parent = Nil]])

\* ParseMapCSS has returned, for the chain a b c, the selector c whose
\* Parent is b, whose Parent is a, whose Parent is nil.
ThreeDeepChain ==
    /\ SheetReturned
    /\ input = <<"a"," ","b"," ","c","{","}">>
    /\ LET s == psheet[1].Rules[1].Selectors[1]
       IN  /\ s.Type = <<"c">>
           /\ s.Parent # Nil /\ s.Parent[1].Type = <<"b">>
           /\ s.Parent[1].Parent # Nil /\ s.Parent[1].Parent[1].Type = <<"a">>
           /\ s.Parent[1].Parent[1].Parent = Nil

\* C17: ParseMapCSS returns a Stylesheet and no error, or no Stylesheet and
\* an error; a text with a rule that has no '{' after its selectors, or no
\* '}' after its '{', and with no at-rule before it, yields no Stylesheet
\* and an error, whatever rules were parsed before.
SheetOrError ==
    ParseReturned =>
        LET b == RuleBlocks(input, 0, <<>>)
        IN  /\ (psheet # Nil) # (perr # Nil)
            /\ ~b.ok /\ ~b.atRule => psheet = Nil /\ perr # Nil

\* ParseMapCSS has returned an error and no Stylesheet after it had parsed
\* a rule.
ErrorAfterParsedRule ==
    /\ ParseReturned
    /\ rules # <<>>
    /\ psheet = Nil
    /\ perr # Nil

\* The Values of the declarations of a Stylesheet.
SheetValues(sheet) ==
    UNION {{sheet.Rules[i].Declarations[j].Value :
               j \in 1..Len(sheet.Rules[i].Declarations)} : i \in 1..Len(sheet.Rules)}

\* C18: every Stylesheet ParseMapCSS returns is built only from objects
\* created during that call: no Color reachable from it lies in a
\* package-level table or in another call's result.
ColorsCreatedByTheCall ==
    SheetReturned =>
        \A v \in SheetValues(psheet[1]) : v.Color # Nil => v.Color[1].base = "call"

Doubled(digits) == [i \in 1..(2 * Len(digits)) |-> digits[(i + 1) \div 2]]

\* The canonical form of a colour given by 3, 4, 6 or 8 hex digits: '#',
\* the long form in lower case, without the alpha byte when that is ff.
CanonicalHex(digits) ==
    LET long == ToLower(IF Len(digits) \in {3, 4} THEN Doubled(digits) ELSE digits)
    IN  IF Len(long) = 8 /\ SubSeq(long, 7, 8) = <<"f","f">>
        THEN <<"#">> \o SubSeq(long, 1, 6)
        ELSE <<"#">> \o long

\* C20: for a hex colour text of 3, 4, 6 or 8 hex digits, Hex() of the parsed
\* Color is the canonical long form of the same colour: every channel comes
\* back as its original byte, the alpha byte is left out exactly when alpha
\* is 1; a text of any other length is rejected with ErrInvalidHexColor.
HexRendersCanonical ==
    ppc = "hex" =>
        LET digits == TrimPrefix(hexin, <<"#">>)
        IN  IF Len(digits) \in {3, 4, 6, 8}
            THEN (\A i \in 1..Len(digits) : digits[i] \in HexDigits) =>
                     /\ hexout.err = Nil
                     /\ hexout.hex = Some(CanonicalHex(digits))
            ELSE hexout.color = Nil /\ hexout.err = Some(ErrInvalidHexColor)

\* #08fF was parsed and rendered as #0088ff: the short digits doubled, the
\* alpha F, which is 1, left out.
ShortAlphaRendered ==
    /\ ppc = "hex"
    /\ hexin = <<"#","0","8","f","F">>
    /\ hexout.hex = Some(<<"#","0","0","8","8","f","f">>)

\* C21: a declaration is handled as the set directive only when its
\* identifier is exactly set: the declaration that parseDeclaration appends
\* is a set-class or set-tag declaration with a String value when the
\* identifier at the cursor is set, and otherwise an ordinary declaration
\* whose property is that identifier, also when it begins with the letters
\* set.
SetOnlyForIdentifierSet ==
    [][ppc = "decl" /\ ppc' = "decls" /\ decls' # decls =>
          LET d == decls'[Len(decls')]
              id == parseIdent(input, p).s
          IN  IF id = <<"s","e","t">>
              THEN /\ d.Property = <<"s","e","t","-","c","l","a","s","s">> \/ HasPrefix(d.Property, <<"s","e","t","-","t","a","g",":">>)
                   /\ d.Value.Type = ValueTypeString
              ELSE d.Property = id]_vars

\* C30: in every reachable parser state the tracked position matches the
\* cursor: line is 1 plus the number of newlines before pos, and col is 1
\* plus the number of characters between the last newline before pos, or
\* the start of the input, and pos.
PositionMatchesCursor ==
    ppc \notin {"idle", "call"} =>
        LET newlines == {i \in 1..Min({p.pos, Len(input)}) : input[i] = "\n"}
        IN  /\ p.line = 1 + Cardinality(newlines)
            /\ p.col = 1 + p.pos - Max(newlines \cup {0})

\* The offsets at or after from at which the two characters of pair begin.
PairsFrom(text, pair, from) ==
    {i \in from..(Len(text) - 2) : text[i + 1] = pair[1] /\ text[i + 2] = pair[2]}

\* What a scan that has visited the spans of entries must have done: every
\* span opens at the first {{ at or after the end of the span before it,
\* closes with the first }} after that opening, and carries the text
\* between the two.
InScanOrder(entries) ==
    \A i \in 1..Len(entries) :
        LET e == entries[i]
            from == IF i = 1 THEN 0 ELSE entries[i - 1].end
            opens == PairsFrom(query, <<"{","{">>, from)
            closes == PairsFrom(query, <<"}","}">>, e.start + 2)
        IN  /\ opens # {} /\ e.start = Min(opens)
            /\ closes # {} /\ e.end = Min(closes) + 2
            /\ e.start >= from /\ e.end >= e.start + 4
            /\ e.content = SubSeq(query, e.start + 3, e.end - 2)

\* The scan over the spans of entries has come to a {{ with no }} after it.
OpenedAndNotClosed(entries) ==
    LET from == IF entries = <<>> THEN 0 ELSE entries[Len(entries)].end
        opens == PairsFrom(query, <<"{","{">>, from)
    IN  opens # {} /\ PairsFrom(query, <<"}","}">>, Min(opens) + 2) = {}

\* C25: scanMacros visits the macro spans in increasing order without
\* overlap, each from the first {{ at or after the end of the one before
\* to the first }} after that opening, a {{ inside being content; the
\* visitor gets the text between the delimiters; a {{ with no later }}
\* makes the scan return ErrBadMacro.
ScanVisitsSpansInOrder ==
    /\ InScanOrder(PrescanEntries)
    /\ InScanOrder(SubstEntries)
    /\ Returned /\ OpenedAndNotClosed(PrescanEntries) =>
           ret.err = ErrBadMacro /\ SubstEntries = <<>>
    /\ Returned /\ ret.err = NoErr =>
           /\ PairsFrom(query, <<"{","{">>,
                  IF SubstEntries = <<>> THEN 0 ELSE SubstEntries[Len(SubstEntries)].end) = {}
           /\ Len(PrescanEntries) = Len(SubstEntries)

\* Expand has returned after the scan of {{{{x}} visited the span from the
\* first {{ to the }}, the second {{ being part of its content.
NestedOpeningVisited ==
    /\ Returned
    /\ query = <<"{","{","{","{","x","}","}">>
    /\ Len(PrescanEntries) = 1
    /\ Len(SubstEntries) = 1
    /\ SubstEntries[1].start = 0 /\ SubstEntries[1].end = 7
    /\ SubstEntries[1].content = <<"{","{","x">>

\* The offset behind the brace that brings the brace depth back to zero,
\* counting from offset i at the given depth, or -1.
RECURSIVE BalancedEnd(_, _, _)
BalancedEnd(text, i, depth) ==
    IF i >= Len(text) THEN 0 - 1
    ELSE LET d == IF text[i + 1] = "{" THEN depth + 1
                  ELSE IF text[i + 1] = "}" THEN depth - 1
                  ELSE depth
         IN  IF d = 0 THEN i + 1 ELSE BalancedEnd(text, i + 1, d)

\* C26: the macro scanner counts brace depth: a macro span ends at the }}
\* that balances its opening {{, so that a style: macro whose stylesheet
\* ends with } directly before the close is captured whole and leaves no }
\* in the expanded query.
SpansEndAtBalancingClose ==
    /\ \A i \in 1..Len(SubstEntries) :
           SubstEntries[i].end = BalancedEnd(query, SubstEntries[i].start, 0)
    /\ Succeeded /\ query = <<"{","{","s","t","y","l","e",":","a","{","b",":","c",";","}","}","}">> =>
           ret.res.Query = <<>> /\ ret.res.Style = <<"a","{","b",":","c",";","}">>

\* The template with the spans of entries, from the i-th on, replaced by
\* their expansions and the text since offset from kept as it is.
RECURSIVE Stitched(_, _, _)
Stitched(entries, i, from) ==
    IF i > Len(entries) THEN SubSeq(query, from + 1, Len(query))
    ELSE SubSeq(query, from + 1, entries[i].start) \o entries[i].value
             \o Stitched(entries, i + 1, entries[i].end)

\* C27: on success Result.Query is the template with each macro span
\* replaced by its expansion and every character outside the spans kept, in
\* order; the spans are those of the template, so the text of an expansion
\* is not scanned again: a caller's shortcut, its key being none of the
\* built-in names, is written as it is; a template without {{ comes back unchanged.
QueryIsTemplateWithSpansReplaced ==
    Succeeded =>
        /\ ret.res.Query = Stitched(SubstEntries, 1, 0)
        /\ InScanOrder(SubstEntries)
        /\ \A i \in 1..Len(SubstEntries) :
               LET key == TrimSpace(SubstEntries[i].content)
               IN  /\ key \in DOMAIN opts.Shortcuts
                   /\ ~BuiltIn(key)
                   /\ \A j \in 1..Len(PrescanEntries) :
                          ~(PrescanEntries[j].def
                              /\ parseShortcutDefinition(PrescanEntries[j].content).name = key)
                   => SubstEntries[i].value = opts.Shortcuts[key]
        /\ PairsFrom(query, <<"{","{">>, 0) = {} => ret.res.Query = query

\* Expand has returned {{k}}n; for the template {{x}}n; with the caller's
\* shortcuts x, whose value is {{k}}, and k.
ExpansionNotExpandedAgain ==
    /\ Succeeded
    /\ query = <<"{","{","x","}","}","n",";">>
    /\ opts = FullOptions
    /\ ret.res.Query = <<"{","{","k","}","}","n",";">>

\* The text after the first ':' of a macro whose text before it names, once
\* trimmed, one of the four geocode macros; no text otherwise.
GeocodeText(content) ==
    LET colons == {i \in 1..Len(content) : content[i] = ":"}
    IN  IF colons = {} THEN <<>>
        ELSE IF TrimSpace(SubSeq(content, 1, Min(colons) - 1))
                    \in {<<"g","e","o","c","o","d","e","I","d">>, <<"g","e","o","c","o","d","e","A","r","e","a">>, <<"g","e","o","c","o","d","e","B","b","o","x">>, <<"g","e","o","c","o","d","e","C","o","o","r","d","s">>}
        THEN TrimSpace(SubSeq(content, Min(colons) + 1, Len(content)))
        ELSE <<>>

\* Span i of the template is a well-formed geocode macro and no macro before
\* it has failed in the substitution pass.
GeocodeDue(i) ==
    /\ opts.Geocoder # Nil
    /\ GeocodeText(PrescanEntries[i].content) # <<>>
    /\ NoEarlierFailure(i)

\* C28 as stated: Geocode is called exactly once for every well-formed
\* geocode macro of the template before which no macro has failed.
GeocodeCalledForEveryMacro ==
    Returned =>
        \A i \in 1..Len(PrescanEntries) :
            GeocodeDue(i) => i <= Len(SubstEntries) /\ SubstEntries[i].geo # Nil

\* C28: Expand calls Geocode only in the substitution pass, once per
\* well-formed geocode macro the pass comes to, in template order, with
\* the trimmed query text of the macro; never in the pre-scan, never for a
\* malformed geocode macro, never after an earlier macro has failed; an
\* error of Geocode ends the expansion with that error.  The pass comes to
\* every such macro when the pre-scan has found every {{ closed, and to
\* none when it has not.
GeocodeCalledOncePerMacro ==
    /\ Returned /\ ~OpenedAndNotClosed(PrescanEntries) =>
           \A i \in 1..Len(PrescanEntries) :
               GeocodeDue(i) => i <= Len(SubstEntries) /\ SubstEntries[i].geo # Nil
    /\ Returned /\ OpenedAndNotClosed(PrescanEntries) => SubstEntries = <<>>
    /\ \A i \in 1..Len(PrescanEntries) : PrescanEntries[i].geo = Nil
    /\ InScanOrder(SubstEntries)
    /\ \A i \in 1..Len(SubstEntries) :
           LET e == SubstEntries[i]
               text == GeocodeText(e.content)
           IN  /\ i < Len(SubstEntries) => e.err = NoErr
               /\ e.geo # Nil <=> opts.Geocoder # Nil /\ text # <<>>
               /\ e.geo # Nil => e.asked = Some(text)
               /\ e.geo # Nil /\ e.geo[1].failed =>
                      /\ i = Len(SubstEntries)
                      /\ Returned
                      /\ ret.err = ErrGeocodingFailed

\* Expand has returned after two calls of Geocode, the first with V and the
\* second with W.
TwoGeocodeCallsInOrder ==
    /\ Returned
    /\ query = <<"{","{","g","e","o","c","o","d","e","I","d",":","V","}","}","{","{"," ","g","e","o","c","o","d","e","C","o","o","r","d","s"," ",":"," ","W"," ","}","}">>
    /\ Len(SubstEntries) = 2
    /\ SubstEntries[1].asked = Some(<<"V">>)
    /\ SubstEntries[2].asked = Some(<<"W">>)


\* The values key k receives: one from Options.Shortcuts when it is a key
\* there, one from every definition span of the template.
ValuesReceived(k) ==
    Cardinality({j \in DefinitionSpans : KeyOf(PrescanEntries[j].content) = k})
        + (IF k \in DOMAIN opts.Shortcuts THEN 1 ELSE 0)

\* The uses of a key that received several values, one of them at least from
\* the template: the substituted spans that are no definition.
UsesOfContestedKeys(keys) ==
    {i \in 1..Len(SubstEntries) :
        /\ ~SubstEntries[i].def
        /\ TrimSpace(SubstEntries[i].content) \in DefinedKeys \cap keys
        /\ ValuesReceived(TrimSpace(SubstEntries[i].content)) >= 2}

\* C29 as stated: every use of a key that received several values expands to
\* the value of the last definition span of the key in the template.
LastDefinitionWinsForEveryKey ==
    \A i \in UsesOfContestedKeys(DefinedKeys) :
        /\ SubstEntries[i].err = NoErr
        /\ SubstEntries[i].value = DefinedValue(TrimSpace(SubstEntries[i].content))

\* C29 (amended): every use of a key that received several values, the key
\* being none of bbox, center, date..., geocode..., expands to the value of
\* the last definition span of the key in the template: it overrides the
\* caller's value and every earlier definition, also for a use that stands
\* before it.
LastDefinitionWins ==
    \A i \in UsesOfContestedKeys({k \in DefinedKeys : ~BuiltIn(k)}) :
        /\ SubstEntries[i].err = NoErr
        /\ SubstEntries[i].value = DefinedValue(TrimSpace(SubstEntries[i].content))

\* Expand has returned v for the template {{k=u}}{{k}}{{k=v}} with the
\* caller's shortcut k: the use stands before the last definition.
LaterDefinitionOverrides ==
    /\ Succeeded
    /\ query = <<"{","{","k","=","u","}","}","{","{","k","}","}","{","{","k","=","v","}","}">>
    /\ opts = FullOptions
    /\ ret.res.Query = <<"v">>

\* The statuses after which a further attempt may follow.
RetryableCodes == {429, 500, 502, 503, 504}

\* The last thing httpClient.Do gave caller c back was a response with one
\* of the retryable statuses.
LastWasRetryable(c) == ~c.resp.failed /\ c.resp.StatusCode \in RetryableCodes

InFlight == {i \in DOMAIN callers : callers[i].pc = "flight"}

\* C23: at most maxParallel requests are in flight at any moment; a token
\* is out of the semaphore for each of them and for nothing else, so every
\* attempt, however it ended, has returned its token; a caller waiting for a
\* token while none is left waits for a request in flight; and once every
\* call has returned the semaphore holds maxParallel tokens, every call
\* having made its request unless its context ended it before.
AtMostMaxParallelInFlight ==
    /\ Cardinality(InFlight) <= maxParallel
    /\ semaphore + Cardinality(InFlight) = maxParallel
    /\ \A i \in DOMAIN callers :
          callers[i].pc = "wait" /\ semaphore = 0 => InFlight # {}
    /\ (\A i \in DOMAIN callers : callers[i].pc = "done") =>
          /\ semaphore = maxParallel
          /\ \A i \in DOMAIN callers :
                callers[i].made >= 1 \/ callers[i].err.kind = "context"

\* With maxParallel = 1 the first caller's request has failed and the
\* second caller, which had to wait, has its request in flight.
TokenReturnedAfterFailure ==
    /\ maxParallel = 1
    /\ Len(callers) >= 2
    /\ callers[1].pc = "done"
    /\ ~callers[1].ok
    /\ callers[1].made >= 1
    /\ callers[2].pc = "flight"
    /\ semaphore = 0

\* C24: the cache is thread-safe; a get that found an expired entry removes
\* an expired entry only, never an entry a concurrent set has written for
\* the key meanwhile: the entry get deletes has expired.
GetRemovesOnlyExpired ==
    [][\A i \in DOMAIN routines :
          routines[i].pc = "get.delete" /\ routines'[i].pc = "idle"
          => \A k \in DOMAIN cacheEntries \ DOMAIN cacheEntries' :
                clock > cacheEntries[k].expiresAt]_vars

====
